---- MODULE Spec2Model ----
(***************************************************************************)
(* Model of the prediction-market arbitrage engine: the two venue feeds    *)
(* writing the shared market store, the periodic arbitrage detector, the   *)
(* unbounded opportunity channel, the execution stage, the position        *)
(* tracker and the risk monitor.                                           *)
(*                                                                         *)
(* Venue A is Kalshi (the fee-charging venue), venue B is Polymarket.      *)
(***************************************************************************)
EXTENDS Integers, Sequences, FiniteSets, TLC

VARIABLES
    kalshi,          \* market id -> venue-A Orderbook
    poly,            \* market id -> venue-B Orderbook
    tracker,         \* the PositionTracker: positions, total_pnl, trade_count
    chan,            \* the unbounded mpsc channel, oldest first
    det_pc,          \* detector: "tick" | "detect" | "admit" | "send" | "panicked"
    det_idx,         \* detector: index in scan_order of the market being scanned
    det_arb,         \* detector: the opportunity detect_arbitrage returned, or None
    det_chk,         \* detector: the position can_trade read at the admission check
    scan_sent,       \* history: the markets enqueued for so far in the current scan
    scan_order,      \* iteration order of the markets HashMap (fixed per process)
    exec_pc,         \* executor: "recv" | "handle" | "done"
    exec_arb,        \* executor: the opportunity received and not yet handled
    alarm,           \* monitor: whether the last heartbeat raised the circuit breaker
    alarms,          \* history: number of circuit-breaker warnings logged so far
    overflow_checks, \* build profile: TRUE = overflow panics, FALSE = wraps
    dry_run,         \* is_dry_run()
    max_position_size, \* max_position_size()
    sent,            \* history: number of opportunities ever enqueued
    calls,           \* history: market id -> record_trade calls that returned
    recorded,        \* history: the record_trade calls made by the executor, in order
    fn_in,           \* input of the pure function applied on its own
    fn_out,          \* its result
    held,            \* lock -> the tasks that hold a guard of it
    feed_pc,         \* venue -> the feed's position in its update handler
    mon_pc           \* monitor: "sleep" | "read" | "check" | "panicked"

bookVars == <<kalshi, poly>>
detVars == <<det_pc, det_idx, det_arb, det_chk, scan_sent>>
execVars == <<exec_pc, exec_arb>>
cfgVars == <<scan_order, overflow_checks, dry_run, max_position_size>>
histVars == <<sent, recorded, calls>>
fnVars == <<fn_in, fn_out>>
monVars == <<alarm, alarms>>
lockVars == <<held, feed_pc, mon_pc>>
vars == <<kalshi, poly, tracker, chan, det_pc, det_idx, det_arb, det_chk, scan_sent,
          scan_order, exec_pc, exec_arb, alarm, alarms, overflow_checks,
          dry_run, max_position_size, sent, recorded, calls, fn_in, fn_out,
          held, feed_pc, mon_pc>>

-----------------------------------------------------------------------------
(* Program constants *)

\* PriceCents = u16: arithmetic is modulo 2^16
U16 == 65536

\* Sentinel value for no price
NO_PRICE == 0

\* Arbitrage threshold in cents
ARB_THRESHOLD_CENTS == 100

(* Bounds of the model *)

\* MAX_POSITION_SIZE: configured maximum open position per market
MaxPositionSize == 1

\* max_daily_loss_cents(): configured loss ceiling
MaxDailyLossCents == 50

\* the detector starts a new scan only while every market can still enqueue
MaxSent == 3

\* number of record_trade calls made directly on the tracker (SpecTracker)
MaxCalls == 4

\* number of circuit-breaker warnings after which the heartbeat is no longer
\* followed
MaxAlarms == 2

\* largest price the fee function is applied to (SpecFee), besides u16::MAX
MaxFeePrice == 130

-----------------------------------------------------------------------------
(* Helpers *)

None == [kind |-> "none"]
\* a JSON field that is absent (or of the wrong type), and one that holds x
Missing == <<>>
Val(x) == <<x>>

Max2(a, b) == IF a >= b THEN a ELSE b

\* ceiling of a / b for a >= 0, b > 0
CeilDiv(a, b) == (a + b - 1) \div b

\* `x as u16` for an integer x: truncation to the low 16 bits
AsU16(x) == x % U16

\* `x as u16` for a float x already rounded to an integer: saturation
SatU16(x) == IF x < 0 THEN 0 ELSE IF x > U16 - 1 THEN U16 - 1 ELSE x

-----------------------------------------------------------------------------
(* types.rs *)

kalshi_fee_cents_truncating(price_cents) ==
    IF price_cents = 0 \/ price_cents >= 100
    THEN 0
    ELSE Max2((7 * price_cents * (100 - price_cents)) \div 10000, 1)

\* kalshi_fee_cents: ceil(0.07 * p * (1 - p) * 100) with p = price/100, at
\* least 1.  7 * c * (100 - c) is never a multiple of 10000 for c in 1..99
\* (FeeNeverExact), so the f64 product is at least 1e-4 away from every
\* integer and its rounding error cannot move the ceiling.
kalshi_fee_cents(price_cents) ==
    IF price_cents = 0 \/ price_cents >= 100
    THEN 0
    ELSE Max2(CeilDiv(7 * price_cents * (100 - price_cents), 10000), 1)

\* price_to_cents for a price of `milli` thousandths of a dollar:
\* round half away from zero, saturating cast to u16, clamp(0, 99)
price_to_cents(milli) ==
    LET r == IF milli >= 0 THEN (milli + 5) \div 10 ELSE -((5 - milli) \div 10)
        c == SatU16(r)
    IN  IF c > 99 THEN 99 ELSE c

\* Orderbook::default()
EmptyBook == [yes_ask |-> 0, no_ask |-> 0, yes_size |-> 0, no_size |-> 0]

\* the ArbType variants, in declaration order
ArbTypes == <<"PolyYesKalshiNo", "KalshiYesPolyNo", "PolyOnly", "KalshiOnly">>

-----------------------------------------------------------------------------
(* config.rs *)

\* get_hardcoded_markets(): the market ids of the static catalogue
Markets == {"chelsea-arsenal", "lakers-celtics"}

KalshiTicker(m) == <<"kalshi_ticker", m>>
PolyYesToken(m) == <<"poly_yes_token", m>>
PolyNoToken(m) == <<"poly_no_token", m>>
UnknownKey == <<"unknown", "none">>

-----------------------------------------------------------------------------
(* execution.rs: detect_arbitrage *)

Combinations_single_fee(k_yes, k_no, p_yes, p_no) ==
    << [arb_type |-> "PolyYesKalshiNo", yes_price |-> p_yes, no_price |-> k_no,
        fee |-> kalshi_fee_cents(k_no)],
       [arb_type |-> "KalshiYesPolyNo", yes_price |-> k_yes, no_price |-> p_no,
        fee |-> kalshi_fee_cents(k_yes)],
       [arb_type |-> "PolyOnly", yes_price |-> p_yes, no_price |-> p_no,
        fee |-> 0],
       [arb_type |-> "KalshiOnly", yes_price |-> k_yes, no_price |-> k_no,
        fee |-> kalshi_fee_cents(k_yes)] >>

\* the four combinations, in evaluation order
Combinations(k_yes, k_no, p_yes, p_no) ==
    << [arb_type |-> "PolyYesKalshiNo", yes_price |-> p_yes, no_price |-> k_no,
        fee |-> kalshi_fee_cents(k_no)],
       [arb_type |-> "KalshiYesPolyNo", yes_price |-> k_yes, no_price |-> p_no,
        fee |-> kalshi_fee_cents(k_yes)],
       [arb_type |-> "PolyOnly", yes_price |-> p_yes, no_price |-> p_no,
        fee |-> 0],
       [arb_type |-> "KalshiOnly", yes_price |-> k_yes, no_price |-> k_no,
        fee |-> kalshi_fee_cents(k_yes) + kalshi_fee_cents(k_no)] >>

\* yes_price + no_price + fee in the integers
ExactCost(c) == c.yes_price + c.no_price + c.fee

\* the u16 sum overflows: a panic with overflow checks, a wrap without
Overflows(c) == ExactCost(c) >= U16

\* let total_cost = yes_price + no_price + fee, as u16
TotalCost(c) == ExactCost(c) % U16

\* if total_cost < ARB_THRESHOLD_CENTS
Qualifies(c) == TotalCost(c) < ARB_THRESHOLD_CENTS

\* the ArbOpportunity built for a qualifying combination (description and
\* timestamp are not read by any operation and are left out)
MakeArb(market_id, c) ==
    [kind |-> "some",
     market_id |-> market_id,
     arb_type |-> c.arb_type,
     yes_price |-> c.yes_price,
     no_price |-> c.no_price,
     total_cost |-> TotalCost(c),
     fee |-> c.fee,
     profit |-> ARB_THRESHOLD_CENTS - TotalCost(c)]

\* if best.is_none() || profit > best.profit
Replaces(best, arb) == best.kind = "none" \/ arb.profit > best.profit

\* the loop over the combinations from index i on, with `best` so far
RECURSIVE BestFrom(_, _, _, _)
BestFrom(market_id, combos, i, best) ==
    IF i > Len(combos)
    THEN best
    ELSE LET c == combos[i]
             arb == MakeArb(market_id, c)
         IN  BestFrom(market_id, combos, i + 1,
                      IF Qualifies(c) /\ Replaces(best, arb) THEN arb ELSE best)

AnyMissing_kalshi_only(k_yes, k_no, p_yes, p_no) ==
    k_yes = NO_PRICE \/ k_no = NO_PRICE

\* Skip if any price is missing
AnyMissing(k_yes, k_no, p_yes, p_no) ==
    k_yes = NO_PRICE \/ k_no = NO_PRICE \/ p_yes = NO_PRICE \/ p_no = NO_PRICE

\* detect_arbitrage on the four prices read: None, Some(best), or a panic when
\* a sum overflows in a build with overflow checks
detect_arbitrage(market_id, k_yes, k_no, p_yes, p_no, checks) ==
    LET combos == Combinations(k_yes, k_no, p_yes, p_no)
    IN  IF AnyMissing(k_yes, k_no, p_yes, p_no)
        THEN None
        ELSE IF checks /\ \E i \in 1..Len(combos) : Overflows(combos[i])
        THEN [kind |-> "panic"]
        ELSE BestFrom(market_id, combos, 1, None)

-----------------------------------------------------------------------------
(* position_tracker.rs *)

\* PositionTracker::default()
NewTracker == [positions |-> <<>>, total_pnl |-> 0, trade_count |-> 0]

\* get_position: positions.get(market_id).copied().unwrap_or(0)
get_position(t, market_id) ==
    IF market_id \in DOMAIN t.positions THEN t.positions[market_id] ELSE 0

can_trade_inclusive(t, market_id, max_size) == get_position(t, market_id) <= max_size

\* can_trade: current < max_size
can_trade(t, market_id, max_size) == get_position(t, market_id) < max_size

\* i32::MAX
I32Max == 2147483647

\* a + b in i32 without overflow checks: the sum modulo 2^32, as a signed
\* value
WrappingAddI32(a, b) ==
    IF b > 0 /\ a > I32Max - b
    THEN (a - I32Max - 1) + (b - I32Max - 1)
    ELSE IF b < 0 /\ a < (-I32Max - 1) - b
    THEN (a + I32Max + 1) + (b + I32Max + 1)
    ELSE a + b

\* total_pnl += profit_cents as i32 overflows
PnlOverflows(t, profit_cents) ==
    \/ profit_cents > 0 /\ t.total_pnl > I32Max - profit_cents
    \/ profit_cents < 0 /\ t.total_pnl < (-I32Max - 1) - profit_cents

\* an addition of record_trade overflows: the u16 position counter or the
\* i32 total_pnl.  trade_count (u32) overflows after 2^32 trades only and is
\* kept as an integer.
RecordOverflows(t, market_id, profit_cents) ==
    \/ get_position(t, market_id) + 1 >= U16
    \/ PnlOverflows(t, profit_cents)

record_trade_all_markets(t, market_id, profit_cents) ==
    [positions |-> [m \in Markets |-> (get_position(t, m) + 1) % U16],
     total_pnl |-> WrappingAddI32(t.total_pnl, profit_cents),
     trade_count |-> t.trade_count + 1]

\* record_trade: positions[market_id] (inserted as 0 when absent) += 1,
\* total_pnl += profit_cents as i32, trade_count += 1
record_trade(t, market_id, profit_cents) ==
    [positions |-> (market_id :> ((get_position(t, market_id) + 1) % U16)) @@ t.positions,
     total_pnl |-> WrappingAddI32(t.total_pnl, profit_cents),
     trade_count |-> t.trade_count + 1]

-----------------------------------------------------------------------------
(* Feed messages *)

Venues == {"kalshi", "poly"}

\* orderbook_delta bodies: a field is an integer (as_i64) or absent
KalshiMsgs ==
    { [yes_ask |-> Val(40), no_ask |-> Val(40),
       yes_ask_size |-> Val(500), no_ask_size |-> Val(500)],
      [yes_ask |-> Missing, no_ask |-> Val(40),
       yes_ask_size |-> Missing, no_ask_size |-> Val(500)],
      [yes_ask |-> Val(-36), no_ask |-> Val(40),
       yes_ask_size |-> Val(70000), no_ask_size |-> Val(500)] }

\* book bodies: price and size of the first ask in thousandths of a dollar,
\* or absent (no asks, no first order, no field, not a string, not a number)
PolyMsgs ==
    { [price |-> Val(400), size |-> Val(2500)],
      [price |-> Missing, size |-> Missing] }

KalshiKeys == {KalshiTicker(m) : m \in Markets} \cup {UnknownKey}
PolyKeys == {PolyYesToken(m) : m \in Markets} \cup {PolyNoToken(m) : m \in Markets}
            \cup {UnknownKey}

\* msg.get(field).and_then(as_i64).unwrap_or(0) as u16
KalshiField(v) == IF v = Missing THEN 0 ELSE AsU16(v[1])

\* the best ask price: parse::<f64>().map(price_to_cents), 0 when absent
PolyPrice(v) == IF v = Missing THEN 0 ELSE price_to_cents(v[1])

\* the best ask size: (sz * 100.0) as u16, 0 when absent
PolySize(v) == IF v = Missing THEN 0 ELSE SatU16(v[1] \div 10)

FindByTicker_or_any(ticker) ==
    IF \E m \in Markets : KalshiTicker(m) = ticker
    THEN {m \in Markets : KalshiTicker(m) = ticker}
    ELSE {CHOOSE m \in Markets : TRUE}

\* the handler's Result: Err when the routing key is absent from the message,
\* Ok otherwise, tracked market or not
HandlerResult(key) == IF key = Missing THEN "Err" ELSE "Ok"

\* markets.values().find(|m| m.pair.kalshi_ticker == ticker)
FindByTicker(ticker) == {m \in Markets : KalshiTicker(m) = ticker}

\* markets.values().find(|m| poly_yes_token == token || poly_no_token == token)
FindByToken(token) == {m \in Markets : PolyYesToken(m) = token \/ PolyNoToken(m) = token}

KalshiBook_keep_missing(book, msg) ==
    [yes_ask |-> IF msg.yes_ask = Missing THEN book.yes_ask
                 ELSE KalshiField(msg.yes_ask),
     no_ask |-> IF msg.no_ask = Missing THEN book.no_ask
                ELSE KalshiField(msg.no_ask),
     yes_size |-> KalshiField(msg.yes_ask_size),
     no_size |-> KalshiField(msg.no_ask_size)]

\* the four fields written under the venue-A write lock
KalshiBook(book, msg) ==
    [yes_ask |-> KalshiField(msg.yes_ask),
     no_ask |-> KalshiField(msg.no_ask),
     yes_size |-> KalshiField(msg.yes_ask_size),
     no_size |-> KalshiField(msg.no_ask_size)]

\* the side written under the venue-B write lock
PolyBook(book, is_yes, msg) ==
    IF is_yes
    THEN [book EXCEPT !.yes_ask = PolyPrice(msg.price), !.yes_size = PolySize(msg.size)]
    ELSE [book EXCEPT !.no_ask = PolyPrice(msg.price), !.no_size = PolySize(msg.size)]

-----------------------------------------------------------------------------
(* Initial state: main() up to the spawning of the five tasks *)

\* the orders in which markets.values() can iterate
ScanOrders ==
    {s \in [1..Cardinality(Markets) -> Markets] : \A i, j \in DOMAIN s : s[i] = s[j] => i = j}

\* everything but the configuration and the function under test
\* the RwLock of the market store, of each orderbook and of the tracker
StoreLock == <<"store", "markets">>

TrackerLock == <<"tracker", "positions">>

BookLock(v, m) == <<v, m>>

Locks == {StoreLock, TrackerLock} \cup {BookLock(v, m) : v \in Venues, m \in Markets}

\* a feed between two messages
FeedIdle == [pc |-> "idle", key |-> Missing]

\* the tasks as they are spawned, nothing enqueued or recorded, no lock held
TasksInit ==
    /\ chan = <<>>
    /\ det_pc = "tick"
    /\ det_idx = 0
    /\ det_arb = None
    /\ det_chk = 0
    /\ scan_sent = {}
    /\ exec_pc = "recv"
    /\ exec_arb = None
    /\ alarm = FALSE
    /\ alarms = 0
    /\ held = [l \in Locks |-> {}]
    /\ feed_pc = [v \in Venues |-> FeedIdle]
    /\ mon_pc = "sleep"
    /\ sent = 0
    /\ recorded = <<>>

SysInit ==
    /\ kalshi = [m \in Markets |-> EmptyBook]
    /\ poly = [m \in Markets |-> EmptyBook]
    /\ TasksInit

Idle == [kind |-> "idle"]

Init ==
    /\ SysInit
    /\ tracker = NewTracker
    /\ calls = [m \in Markets |-> 0]
    /\ scan_order \in ScanOrders
    /\ overflow_checks \in BOOLEAN
    /\ dry_run \in BOOLEAN
    /\ max_position_size = MaxPositionSize
    /\ fn_in = Idle
    /\ fn_out = Idle

-----------------------------------------------------------------------------
(* Feed tasks: kalshi.rs, polymarket.rs, and their supervisors in main.rs *)

\* The read loop ends (Close frame, stream error, failed connect), the
\* supervisor sleeps WS_RECONNECT_DELAY_SECS and run_*_ws connects and
\* subscribes again.  No shared state is touched; while the feed is down no
\* update arrives, which the other tasks cannot tell from a silent feed.
FeedReconnect(v) ==
    /\ v \in Venues
    /\ UNCHANGED vars

\* handle_orderbook_delta
KalshiUpdate_all_markets(ticker, msg) ==
    /\ kalshi' = [m \in Markets |->
                    IF FindByTicker(ticker) # {} THEN KalshiBook(kalshi[m], msg)
                    ELSE kalshi[m]]
    /\ UNCHANGED <<poly, tracker, chan, detVars, execVars, monVars, cfgVars, lockVars,
                   histVars, fnVars>>

KalshiUpdate(ticker, msg) ==
    /\ kalshi' = [m \in Markets |->
                    IF m \in FindByTicker(ticker) THEN KalshiBook(kalshi[m], msg)
                    ELSE kalshi[m]]
    /\ UNCHANGED <<poly, tracker, chan, detVars, execVars, monVars, cfgVars, lockVars,
                   histVars, fnVars>>

\* handle_book_update
PolyUpdate(token, msg) ==
    /\ poly' = [m \in Markets |->
                  IF m \in FindByToken(token)
                  THEN PolyBook(poly[m], PolyYesToken(m) = token, msg)
                  ELSE poly[m]]
    /\ UNCHANGED <<kalshi, tracker, chan, detVars, execVars, monVars, cfgVars, lockVars,
                   histVars, fnVars>>

-----------------------------------------------------------------------------
(* Detector task: check_arbitrage_opportunities *)

\* the sender is dropped when the detector task has panicked
ChannelClosed == det_pc = "panicked"

\* a panic inside the tracker's write lock poisons it: read().unwrap() panics
TrackerPoisoned == exec_pc = "panicked"

CurMarket == scan_order[det_idx]

\* the detector task ends in a panic
DetPanic ==
    /\ det_pc' = "panicked"
    /\ det_idx' = 0
    /\ det_arb' = None
    /\ det_chk' = 0
    /\ scan_sent' = {}

DetAdvance_stay(enqueued) ==
    /\ det_arb' = None
    /\ det_chk' = 0
    /\ det_pc' = "detect"
    /\ det_idx' = det_idx
    /\ scan_sent' = scan_sent \cup enqueued

\* the for loop moves to the next market, or the scan ends; enqueued holds
\* the current market if an opportunity was enqueued for it
DetAdvance(enqueued) ==
    /\ det_arb' = None
    /\ det_chk' = 0
    /\ IF det_idx < Len(scan_order)
       THEN /\ det_pc' = "detect"
            /\ det_idx' = det_idx + 1
            /\ scan_sent' = scan_sent \cup enqueued
       ELSE /\ det_pc' = "tick"
            /\ det_idx' = 0
            /\ scan_sent' = {}

\* interval.tick(): a scan starts
DetTick ==
    /\ det_pc = "tick"
    /\ sent + Cardinality(Markets) <= MaxSent
    /\ det_pc' = "detect"
    /\ det_idx' = 1
    /\ UNCHANGED <<det_arb, det_chk, scan_sent, bookVars, tracker, chan,
                   execVars, monVars, cfgVars, lockVars, histVars, fnVars>>

\* detect_arbitrage(market): both books read under their read locks
DetDetect ==
    /\ det_pc = "detect"
    /\ LET m == CurMarket
           r == detect_arbitrage(m, kalshi[m].yes_ask, kalshi[m].no_ask,
                                 poly[m].yes_ask, poly[m].no_ask, overflow_checks)
       IN  IF r.kind = "panic"
           THEN DetPanic
           ELSE IF r.kind = "none"
           THEN DetAdvance({})
           ELSE /\ det_pc' = "admit"
                /\ det_arb' = r
                /\ UNCHANGED <<det_idx, det_chk, scan_sent>>
    /\ UNCHANGED <<bookVars, tracker, chan, execVars, monVars, cfgVars, lockVars,
                   histVars, fnVars>>

DetAdmit_unchecked ==
    /\ det_pc = "admit"
    /\ IF TrackerPoisoned
       THEN DetPanic
       ELSE /\ det_pc' = "send"
            /\ det_chk' = get_position(tracker, CurMarket)
            /\ UNCHANGED <<det_idx, det_arb, scan_sent>>
    /\ UNCHANGED <<bookVars, tracker, chan, execVars, monVars, cfgVars, lockVars,
                   histVars, fnVars>>

\* tracker.can_trade(&market.pair.id, max_position_size()) under the read lock
DetAdmit ==
    /\ det_pc = "admit"
    /\ IF TrackerPoisoned
       THEN DetPanic
       ELSE IF can_trade(tracker, CurMarket, max_position_size)
       THEN /\ det_pc' = "send"
            /\ det_chk' = get_position(tracker, CurMarket)
            /\ UNCHANGED <<det_idx, det_arb, scan_sent>>
       ELSE DetAdvance({})
    /\ UNCHANGED <<bookVars, tracker, chan, execVars, monVars, cfgVars, lockVars,
                   histVars, fnVars>>

\* the executor task has ended and dropped the receiver
ReceiverDropped == exec_pc \in {"panicked", "done"}

\* let _ = arb_tx.send(arb), after the tracker's read lock is dropped: an
\* error (receiver dropped) is ignored
DetSend ==
    /\ det_pc = "send"
    /\ IF ReceiverDropped
       THEN UNCHANGED <<chan, sent>> /\ DetAdvance({})
       ELSE /\ chan' = Append(chan, [arb |-> det_arb, seq |-> sent + 1,
                                     chk_pos |-> det_chk])
            /\ sent' = sent + 1
            /\ DetAdvance({CurMarket})
    /\ UNCHANGED <<bookVars, tracker, execVars, monVars, cfgVars, lockVars, recorded,
                   calls, fnVars>>

-----------------------------------------------------------------------------
(* Executor task: execute_arbitrage_loop *)

ExecRecv_lifo ==
    /\ exec_pc = "recv"
    /\ chan # <<>>
    /\ exec_arb' = chan[Len(chan)]
    /\ chan' = SubSeq(chan, 1, Len(chan) - 1)
    /\ exec_pc' = "handle"
    /\ UNCHANGED <<bookVars, tracker, detVars, monVars, cfgVars, lockVars, histVars,
                   fnVars>>

\* arb_rx.recv() returns Some(arb)
ExecRecv ==
    /\ exec_pc = "recv"
    /\ chan # <<>>
    /\ exec_arb' = Head(chan)
    /\ chan' = Tail(chan)
    /\ exec_pc' = "handle"
    /\ UNCHANGED <<bookVars, tracker, detVars, monVars, cfgVars, lockVars, histVars,
                   fnVars>>

\* arb_rx.recv() returns None: channel empty and the sender dropped
ExecClosed ==
    /\ exec_pc = "recv"
    /\ chan = <<>>
    /\ ChannelClosed
    /\ exec_pc' = "done"
    /\ UNCHANGED <<exec_arb, bookVars, tracker, chan, detVars, monVars,
                   cfgVars, lockVars, histVars, fnVars>>

\* the loop body: record_trade under the write lock in dry-run mode, a
\* warning in live mode.  A panic in record_trade poisons the tracker's lock
\* and ends the task, which drops the receiver and what the channel holds.
ExecHandle ==
    /\ exec_pc = "handle"
    /\ LET a == exec_arb.arb
       IN  IF ~dry_run
           THEN exec_pc' = "recv" /\ UNCHANGED <<tracker, recorded, calls, chan>>
           ELSE IF overflow_checks /\ RecordOverflows(tracker, a.market_id, a.profit)
           THEN /\ exec_pc' = "panicked"
                /\ chan' = <<>>
                /\ UNCHANGED <<tracker, recorded, calls>>
           ELSE /\ exec_pc' = "recv"
                /\ UNCHANGED chan
                /\ tracker' = record_trade(tracker, a.market_id, a.profit)
                /\ recorded' = Append(recorded,
                       [market_id |-> a.market_id, profit |-> a.profit,
                        seq |-> exec_arb.seq, chk_pos |-> exec_arb.chk_pos])
                /\ calls' = [calls EXCEPT ![a.market_id] = @ + 1]
    /\ exec_arb' = None
    /\ UNCHANGED <<bookVars, detVars, monVars, cfgVars, lockVars, sent, fnVars>>

-----------------------------------------------------------------------------
(* Heartbeat task in main.rs *)

Breached_inclusive(t) == -t.total_pnl >= MaxDailyLossCents

\* total_loss > max_daily_loss_cents() as i32, with total_loss = -total_pnl
Breached(t) == -t.total_pnl > MaxDailyLossCents

MonitorCheck_halting ==
    /\ ~TrackerPoisoned
    /\ alarms < MaxAlarms
    /\ alarm' = Breached(tracker)
    /\ alarms' = IF Breached(tracker) THEN alarms + 1 ELSE alarms
    /\ chan' = IF Breached(tracker) THEN <<>> ELSE chan
    /\ UNCHANGED <<bookVars, tracker, detVars, execVars, cfgVars, lockVars,
                   histVars, fnVars>>

\* one heartbeat: tracker.read().unwrap(), the comparison, and the warning
\* logged when it is true
MonitorCheck ==
    /\ ~TrackerPoisoned
    /\ alarms < MaxAlarms
    /\ alarm' = Breached(tracker)
    /\ alarms' = IF Breached(tracker) THEN alarms + 1 ELSE alarms
    /\ UNCHANGED <<bookVars, tracker, chan, detVars, execVars, cfgVars, lockVars,
                   histVars, fnVars>>

-----------------------------------------------------------------------------
(* The running system *)

Next ==
    \/ \E v \in Venues : FeedReconnect(v)
    \/ \E k \in KalshiKeys, msg \in KalshiMsgs : KalshiUpdate(k, msg)
    \/ \E k \in PolyKeys, msg \in PolyMsgs : PolyUpdate(k, msg)
    \/ DetTick
    \/ DetDetect
    \/ DetAdmit
    \/ DetSend
    \/ ExecRecv
    \/ ExecClosed
    \/ ExecHandle
    \/ MonitorCheck

Spec == Init /\ [][Next]_vars

-----------------------------------------------------------------------------
(* kalshi_fee_cents applied to one price *)

FeePrices == (0..MaxFeePrice) \cup {U16 - 1}

\* a fixed configuration for the specifications that do not run the tasks
QuietInit ==
    /\ SysInit
    /\ scan_order = CHOOSE s \in ScanOrders : TRUE
    /\ dry_run = TRUE
    /\ max_position_size = MaxPositionSize

InitFee ==
    /\ QuietInit
    /\ tracker = NewTracker
    /\ calls = [m \in Markets |-> 0]
    /\ overflow_checks = FALSE
    /\ fn_in \in [kind : {"fee"}, price_cents : FeePrices]
    /\ fn_out = Idle

ApplyFee ==
    /\ fn_in.kind = "fee"
    /\ fn_out = Idle
    /\ fn_out' = [kind |-> "fee", value |-> kalshi_fee_cents(fn_in.price_cents)]
    /\ UNCHANGED <<bookVars, tracker, chan, detVars, execVars, monVars, cfgVars, lockVars,
                   histVars, fn_in>>

SpecFee == InitFee /\ [][ApplyFee]_vars

-----------------------------------------------------------------------------
(* detect_arbitrage applied to four prices *)

\* what a venue-A update can store: anything in u16; here the sentinel, valid
\* prices around the threshold, and values beyond 99
KalshiPrices == {0, 40, 42, 49, 50, 99, 100, 65500}

\* what a venue-B update can store: price_to_cents clamps to [0, 99]
PolyPrices == {0, 40, 42, 49, 50, 99}

InitDetect ==
    /\ QuietInit
    /\ tracker = NewTracker
    /\ calls = [m \in Markets |-> 0]
    /\ overflow_checks \in BOOLEAN
    /\ fn_in \in [kind : {"detect"}, market_id : Markets, k_yes : KalshiPrices,
                  k_no : KalshiPrices, p_yes : PolyPrices, p_no : PolyPrices]
    /\ fn_out = Idle

ApplyDetect ==
    /\ fn_in.kind = "detect"
    /\ fn_out = Idle
    /\ fn_out' = detect_arbitrage(fn_in.market_id, fn_in.k_yes, fn_in.k_no,
                                  fn_in.p_yes, fn_in.p_no, overflow_checks)
    /\ UNCHANGED <<bookVars, tracker, chan, detVars, execVars, monVars, cfgVars, lockVars,
                   histVars, fn_in>>

SpecDetect == InitDetect /\ [][ApplyDetect]_vars

-----------------------------------------------------------------------------
(* The PositionTracker driven through its interface *)

\* profit_cents: i16, signed
Profits == {-60, -50, 0, 20}

\* positions a market can start from: none recorded yet, or two short of
\* u16::MAX recorded trades
StartPositions == {0, U16 - 2}

RECURSIVE SumOver(_, _)
SumOver(f, S) ==
    IF S = {}
    THEN 0
    ELSE LET x == CHOOSE y \in S : TRUE
         IN  f[x] + SumOver(f, S \ {x})

\* a tracker on which start[m] trades were recorded for m, each of the given
\* profit
TrackerAt(start, profit_cents) ==
    [positions |-> [m \in {x \in Markets : start[x] > 0} |-> start[m]],
     total_pnl |-> SumOver(start, Markets) * profit_cents,
     trade_count |-> SumOver(start, Markets)]

InitTracker ==
    /\ QuietInit
    /\ overflow_checks \in BOOLEAN
    /\ \E start \in [Markets -> StartPositions] :
          /\ tracker = TrackerAt(start, 0)
          /\ calls = start
    /\ fn_in = Idle
    /\ fn_out = Idle

\* one call of record_trade(market_id, profit_cents) under the write lock
TrackerRecord(market_id, profit_cents) ==
    /\ ~TrackerPoisoned
    /\ Len(recorded) < MaxCalls
    /\ fn_in' = [kind |-> "record", market_id |-> market_id,
                  profit_cents |-> profit_cents]
    /\ IF overflow_checks /\ RecordOverflows(tracker, market_id, profit_cents)
       THEN exec_pc' = "panicked" /\ UNCHANGED <<tracker, recorded, calls>>
       ELSE /\ tracker' = record_trade(tracker, market_id, profit_cents)
            /\ recorded' = Append(recorded,
                   [market_id |-> market_id, profit |-> profit_cents, seq |-> 0,
                    chk_pos |-> get_position(tracker, market_id)])
            /\ calls' = [calls EXCEPT ![market_id] = @ + 1]
            /\ UNCHANGED exec_pc
    /\ UNCHANGED <<bookVars, chan, detVars, exec_arb, monVars, cfgVars, lockVars, sent,
                   fn_out>>

NextTracker ==
    \/ \E m \in Markets, p \in Profits : TrackerRecord(m, p)
    \/ MonitorCheck

SpecTracker == InitTracker /\ [][NextTracker]_vars

-----------------------------------------------------------------------------
(* The running system, the executor scheduled fairly: the tokio runtime polls
   a spawned task that is ready *)

SpecFair ==
    /\ Init
    /\ [][Next]_vars
    /\ WF_vars(ExecRecv)
    /\ WF_vars(ExecClosed)
    /\ WF_vars(ExecHandle)

-----------------------------------------------------------------------------
(* The running system late in its life: MAX_POSITION_SIZE=65535, simulation
   mode, and u16::MAX - 1 trades of 20 cents profit each already recorded for
   one market *)

LongRunMarket == CHOOSE m \in Markets : TRUE

InitLongRun ==
    /\ SysInit
    /\ \E start \in [Markets -> {0, U16 - 2}] :
          /\ \A m \in Markets : start[m] > 0 <=> m = LongRunMarket
          /\ tracker = TrackerAt(start, 20)
          /\ calls = start
    /\ scan_order \in ScanOrders
    /\ overflow_checks \in BOOLEAN
    /\ dry_run = TRUE
    /\ max_position_size = U16 - 1
    /\ fn_in = Idle
    /\ fn_out = Idle

SpecLongRun == InitLongRun /\ [][Next]_vars

-----------------------------------------------------------------------------
(* The running system very late in its life, in a build without overflow
   checks: MAX_POSITION_SIZE=65535, simulation mode, the position counter of
   one market has wrapped LateWraps times to 0 and the profits recorded so far
   add up to ten cents short of i32::MAX *)

\* number of times the position counter has wrapped
LateWraps == 1639

InitLateRun ==
    /\ SysInit
    /\ tracker = [positions |-> (LongRunMarket :> 0),
                  total_pnl |-> I32Max - 10,
                  trade_count |-> LateWraps * U16]
    /\ calls = [m \in Markets |-> IF m = LongRunMarket THEN LateWraps * U16 ELSE 0]
    /\ scan_order = CHOOSE s \in ScanOrders : TRUE
    /\ overflow_checks = FALSE
    /\ dry_run = TRUE
    /\ max_position_size = U16 - 1
    /\ fn_in = Idle
    /\ fn_out = Idle

\* the steps of the tasks in a build without overflow checks: no addition
\* panics, so no task ends, no lock is poisoned and the channel is never
\* closed
NextLateRun ==
    \/ \E v \in Venues : FeedReconnect(v)
    \/ \E k \in KalshiKeys, msg \in KalshiMsgs : KalshiUpdate(k, msg)
    \/ \E k \in PolyKeys, msg \in PolyMsgs : PolyUpdate(k, msg)
    \/ DetTick
    \/ DetDetect
    \/ DetAdmit
    \/ DetSend
    \/ ExecRecv
    \/ ExecHandle
    \/ MonitorCheck

SpecLateRun == InitLateRun /\ [][NextLateRun]_vars

-----------------------------------------------------------------------------
(* The running system started on a tracker that already carries a loss: one
   trade of -60 cents recorded for one market through record_trade, simulation
   mode *)

InitAfterLoss ==
    /\ SysInit
    /\ \E start \in [Markets -> {0, 1}] :
          /\ \A m \in Markets : start[m] > 0 <=> m = LongRunMarket
          /\ tracker = TrackerAt(start, -60)
          /\ calls = start
    /\ scan_order \in ScanOrders
    /\ overflow_checks \in BOOLEAN
    /\ dry_run = TRUE
    /\ max_position_size = MaxPositionSize
    /\ fn_in = Idle
    /\ fn_out = Idle

SpecAfterLoss == InitAfterLoss /\ [][Next]_vars

-----------------------------------------------------------------------------
(* The tasks at the granularity of their locks: every acquisition of a lock
   and every channel operation is a step of its own.  A guard is released in
   the step that ends the scope it lives in. *)

Tasks == Venues \cup {"detector", "executor", "monitor"}

\* the tasks that take the write guard of a lock: nobody writes the store
\* after construction, a feed writes the books of its venue, the executor
\* writes the tracker
Writers(l) ==
    IF l = StoreLock THEN {}
    ELSE IF l = TrackerLock THEN {"executor"}
    ELSE {l[1]}

\* read() is granted while no writer holds the lock
CanRead(l) == held[l] \cap Writers(l) = {}

\* write() is granted while nobody holds the lock
CanWrite(l) == held[l] = {}

Acquire(l, t) == [held EXCEPT ![l] = @ \cup {t}]

\* the guards of the locks ls held by task t are dropped
Release(h, ls, t) == [l \in Locks |-> IF l \in ls THEN h[l] \ {t} ELSE h[l]]

\* the market a routing key of venue v leads to, if any
Routed(v, key) == IF v = "kalshi" THEN FindByTicker(key) ELSE FindByToken(key)

FeedKeys(v) == IF v = "kalshi" THEN KalshiKeys ELSE PolyKeys

FeedMarket(v) == CHOOSE m \in Routed(v, feed_pc[v].key) : TRUE

\* a message with a routing key arrives on the socket of venue v
LkFeedMessage(v, key) ==
    /\ feed_pc[v].pc = "idle"
    /\ feed_pc' = [feed_pc EXCEPT ![v] = [pc |-> "store", key |-> key]]
    /\ UNCHANGED <<bookVars, tracker, chan, detVars, execVars, monVars, cfgVars,
                   histVars, fnVars, held, mon_pc>>

\* markets.read().unwrap()
LkFeedStoreRead(v) ==
    /\ feed_pc[v].pc = "store"
    /\ CanRead(StoreLock)
    /\ held' = Acquire(StoreLock, v)
    /\ feed_pc' = [feed_pc EXCEPT ![v].pc = "find"]
    /\ UNCHANGED <<bookVars, tracker, chan, detVars, execVars, monVars, cfgVars,
                   histVars, fnVars, mon_pc>>

\* find, then the store guard is dropped: return Ok(()) for an untracked key,
\* else go on with the market's Arc
LkFeedFind(v) ==
    /\ feed_pc[v].pc = "find"
    /\ held' = Release(held, {StoreLock}, v)
    /\ feed_pc' = [feed_pc EXCEPT ![v] =
                     IF Routed(v, feed_pc[v].key) = {} THEN FeedIdle
                     ELSE [pc |-> "book", key |-> feed_pc[v].key]]
    /\ UNCHANGED <<bookVars, tracker, chan, detVars, execVars, monVars, cfgVars,
                   histVars, fnVars, mon_pc>>

\* market_state.kalshi.write().unwrap(), market_state.poly.write().unwrap()
LkFeedBookWrite(v) ==
    /\ feed_pc[v].pc = "book"
    /\ CanWrite(BookLock(v, FeedMarket(v)))
    /\ held' = Acquire(BookLock(v, FeedMarket(v)), v)
    /\ feed_pc' = [feed_pc EXCEPT ![v].pc = "write"]
    /\ UNCHANGED <<bookVars, tracker, chan, detVars, execVars, monVars, cfgVars,
                   histVars, fnVars, mon_pc>>

\* the fields of the message are stored and the write guard is dropped
LkKalshiStore(msg) ==
    /\ feed_pc["kalshi"].pc = "write"
    /\ kalshi' = [kalshi EXCEPT ![FeedMarket("kalshi")] = KalshiBook(@, msg)]
    /\ held' = Release(held, {BookLock("kalshi", FeedMarket("kalshi"))}, "kalshi")
    /\ feed_pc' = [feed_pc EXCEPT !["kalshi"] = FeedIdle]
    /\ UNCHANGED <<poly, tracker, chan, detVars, execVars, monVars, cfgVars,
                   histVars, fnVars, mon_pc>>

LkPolyStore(msg) ==
    /\ feed_pc["poly"].pc = "write"
    /\ LET m == FeedMarket("poly")
       IN  poly' = [poly EXCEPT ![m] =
                      PolyBook(@, PolyYesToken(m) = feed_pc["poly"].key, msg)]
    /\ held' = Release(held, {BookLock("poly", FeedMarket("poly"))}, "poly")
    /\ feed_pc' = [feed_pc EXCEPT !["poly"] = FeedIdle]
    /\ UNCHANGED <<kalshi, tracker, chan, detVars, execVars, monVars, cfgVars,
                   histVars, fnVars, mon_pc>>

\* the locks the detector holds a guard of
DetHeld == {l \in Locks : "detector" \in held[l]}

\* the for loop moves to the next market, or the scan ends and the store
\* guard is dropped; h is what is held once the guards of the iteration are
\* dropped
LkDetAdvance(enqueued, h) ==
    /\ det_arb' = None
    /\ det_chk' = 0
    /\ IF det_idx < Len(scan_order)
       THEN /\ det_pc' = "kalshi"
            /\ det_idx' = det_idx + 1
            /\ scan_sent' = scan_sent \cup enqueued
            /\ held' = h
       ELSE /\ det_pc' = "tick"
            /\ det_idx' = 0
            /\ scan_sent' = {}
            /\ held' = Release(h, {StoreLock}, "detector")

\* the detector panics: unwinding drops every guard it holds
LkDetPanic ==
    /\ DetPanic
    /\ held' = Release(held, DetHeld, "detector")

\* interval.tick()
LkDetTick ==
    /\ det_pc = "tick"
    /\ sent + Cardinality(Markets) <= MaxSent
    /\ det_pc' = "store"
    /\ UNCHANGED <<det_idx, det_arb, det_chk, scan_sent, bookVars, tracker, chan,
                   execVars, monVars, cfgVars, histVars, fnVars, lockVars>>

\* markets.read().unwrap(), held for the whole scan
LkDetStoreRead ==
    /\ det_pc = "store"
    /\ CanRead(StoreLock)
    /\ held' = Acquire(StoreLock, "detector")
    /\ det_pc' = "kalshi"
    /\ det_idx' = 1
    /\ UNCHANGED <<det_arb, det_chk, scan_sent, bookVars, tracker, chan,
                   execVars, monVars, cfgVars, histVars, fnVars, feed_pc, mon_pc>>

\* market.kalshi.read().unwrap()
LkDetKalshiRead ==
    /\ det_pc = "kalshi"
    /\ CanRead(BookLock("kalshi", CurMarket))
    /\ held' = Acquire(BookLock("kalshi", CurMarket), "detector")
    /\ det_pc' = "poly"
    /\ UNCHANGED <<det_idx, det_arb, det_chk, scan_sent, bookVars, tracker, chan,
                   execVars, monVars, cfgVars, histVars, fnVars, feed_pc, mon_pc>>

\* market.poly.read().unwrap(), with the venue-A guard still held
LkDetPolyRead ==
    /\ det_pc = "poly"
    /\ CanRead(BookLock("poly", CurMarket))
    /\ held' = Acquire(BookLock("poly", CurMarket), "detector")
    /\ det_pc' = "detect"
    /\ UNCHANGED <<det_idx, det_arb, det_chk, scan_sent, bookVars, tracker, chan,
                   execVars, monVars, cfgVars, histVars, fnVars, feed_pc, mon_pc>>

\* the body of detect_arbitrage under both read guards, dropped on return
LkDetDetect ==
    /\ det_pc = "detect"
    /\ LET m == CurMarket
           r == detect_arbitrage(m, kalshi[m].yes_ask, kalshi[m].no_ask,
                                 poly[m].yes_ask, poly[m].no_ask, overflow_checks)
           h == Release(held, {BookLock("kalshi", m), BookLock("poly", m)},
                        "detector")
       IN  IF r.kind = "panic"
           THEN LkDetPanic
           ELSE IF r.kind = "none"
           THEN LkDetAdvance({}, h)
           ELSE /\ det_pc' = "tracker"
                /\ det_arb' = r
                /\ held' = h
                /\ UNCHANGED <<det_idx, det_chk, scan_sent>>
    /\ UNCHANGED <<bookVars, tracker, chan, execVars, monVars, cfgVars,
                   histVars, fnVars, feed_pc, mon_pc>>

\* position_tracker.read().unwrap(): panics on a poisoned lock
LkDetTrackerRead ==
    /\ det_pc = "tracker"
    /\ CanRead(TrackerLock)
    /\ IF TrackerPoisoned
       THEN LkDetPanic
       ELSE /\ held' = Acquire(TrackerLock, "detector")
            /\ det_pc' = "admit"
            /\ UNCHANGED <<det_idx, det_arb, det_chk, scan_sent>>
    /\ UNCHANGED <<bookVars, tracker, chan, execVars, monVars, cfgVars,
                   histVars, fnVars, feed_pc, mon_pc>>

\* can_trade under the read guard, which is dropped before the send, or at
\* the end of the iteration when the limit is reached
LkDetAdmit ==
    /\ det_pc = "admit"
    /\ LET h == Release(held, {TrackerLock}, "detector")
       IN  IF can_trade(tracker, CurMarket, max_position_size)
           THEN /\ det_pc' = "send"
                /\ det_chk' = get_position(tracker, CurMarket)
                /\ held' = h
                /\ UNCHANGED <<det_idx, det_arb, scan_sent>>
           ELSE LkDetAdvance({}, h)
    /\ UNCHANGED <<bookVars, tracker, chan, execVars, monVars, cfgVars,
                   histVars, fnVars, feed_pc, mon_pc>>

LkDetSend_bounded ==
    /\ det_pc = "send"
    /\ Len(chan) < 1
    /\ IF ReceiverDropped
       THEN UNCHANGED <<chan, sent>> /\ LkDetAdvance({}, held)
       ELSE /\ chan' = Append(chan, [arb |-> det_arb, seq |-> sent + 1,
                                     chk_pos |-> det_chk])
            /\ sent' = sent + 1
            /\ LkDetAdvance({CurMarket}, held)
    /\ UNCHANGED <<bookVars, tracker, execVars, monVars, cfgVars, recorded,
                   calls, fnVars, feed_pc, mon_pc>>

\* let _ = arb_tx.send(arb) on the unbounded channel
LkDetSend ==
    /\ det_pc = "send"
    /\ IF ReceiverDropped
       THEN UNCHANGED <<chan, sent>> /\ LkDetAdvance({}, held)
       ELSE /\ chan' = Append(chan, [arb |-> det_arb, seq |-> sent + 1,
                                     chk_pos |-> det_chk])
            /\ sent' = sent + 1
            /\ LkDetAdvance({CurMarket}, held)
    /\ UNCHANGED <<bookVars, tracker, execVars, monVars, cfgVars, recorded,
                   calls, fnVars, feed_pc, mon_pc>>

\* arb_rx.recv() returns Some(arb); in live mode the body is the warning
LkExecRecv ==
    /\ exec_pc = "recv"
    /\ chan # <<>>
    /\ chan' = Tail(chan)
    /\ IF dry_run
       THEN exec_arb' = Head(chan) /\ exec_pc' = "write"
       ELSE exec_arb' = None /\ exec_pc' = "recv"
    /\ UNCHANGED <<bookVars, tracker, detVars, monVars, cfgVars, histVars,
                   fnVars, lockVars>>

\* arb_rx.recv() returns None
LkExecClosed ==
    /\ exec_pc = "recv"
    /\ chan = <<>>
    /\ ChannelClosed
    /\ exec_pc' = "done"
    /\ UNCHANGED <<exec_arb, bookVars, tracker, chan, detVars, monVars,
                   cfgVars, histVars, fnVars, lockVars>>

\* position_tracker.write().unwrap()
LkExecTrackerWrite ==
    /\ exec_pc = "write"
    /\ CanWrite(TrackerLock)
    /\ held' = Acquire(TrackerLock, "executor")
    /\ exec_pc' = "handle"
    /\ UNCHANGED <<exec_arb, bookVars, tracker, chan, detVars, monVars,
                   cfgVars, histVars, fnVars, feed_pc, mon_pc>>

\* record_trade under the write guard, dropped at the end of the block; a
\* panic drops it too, poisons the lock and ends the task
LkExecRecord ==
    /\ exec_pc = "handle"
    /\ LET a == exec_arb.arb
       IN  IF overflow_checks /\ RecordOverflows(tracker, a.market_id, a.profit)
           THEN /\ exec_pc' = "panicked"
                /\ chan' = <<>>
                /\ UNCHANGED <<tracker, recorded, calls>>
           ELSE /\ exec_pc' = "recv"
                /\ UNCHANGED chan
                /\ tracker' = record_trade(tracker, a.market_id, a.profit)
                /\ recorded' = Append(recorded,
                       [market_id |-> a.market_id, profit |-> a.profit,
                        seq |-> exec_arb.seq, chk_pos |-> exec_arb.chk_pos])
                /\ calls' = [calls EXCEPT ![a.market_id] = @ + 1]
    /\ exec_arb' = None
    /\ held' = Release(held, {TrackerLock}, "executor")
    /\ UNCHANGED <<bookVars, detVars, monVars, cfgVars, sent, fnVars, feed_pc,
                   mon_pc>>

\* the heartbeat's interval.tick()
LkMonTick ==
    /\ mon_pc = "sleep"
    /\ alarms < MaxAlarms
    /\ mon_pc' = "read"
    /\ UNCHANGED <<bookVars, tracker, chan, detVars, execVars, monVars, cfgVars,
                   histVars, fnVars, held, feed_pc>>

\* heartbeat_tracker.read().unwrap(): panics on a poisoned lock
LkMonTrackerRead ==
    /\ mon_pc = "read"
    /\ CanRead(TrackerLock)
    /\ IF TrackerPoisoned
       THEN mon_pc' = "panicked" /\ UNCHANGED held
       ELSE mon_pc' = "check" /\ held' = Acquire(TrackerLock, "monitor")
    /\ UNCHANGED <<bookVars, tracker, chan, detVars, execVars, monVars, cfgVars,
                   histVars, fnVars, feed_pc>>

\* the summary and the circuit-breaker comparison under the read guard,
\* dropped at the end of the iteration
LkMonCheck ==
    /\ mon_pc = "check"
    /\ alarm' = Breached(tracker)
    /\ alarms' = IF Breached(tracker) THEN alarms + 1 ELSE alarms
    /\ held' = Release(held, {TrackerLock}, "monitor")
    /\ mon_pc' = "sleep"
    /\ UNCHANGED <<bookVars, tracker, chan, detVars, execVars, cfgVars,
                   histVars, fnVars, feed_pc>>

\* the messages the feeds deliver while the locks are followed: updates that
\* carry their prices
LockKalshiMsgs == {msg \in KalshiMsgs : msg.yes_ask # Missing}

LockPolyMsgs == {msg \in PolyMsgs : msg.price # Missing}

NextLocks ==
    \/ \E v \in Venues : FeedReconnect(v)
    \/ \E v \in Venues : \E key \in FeedKeys(v) : LkFeedMessage(v, key)
    \/ \E v \in Venues : LkFeedStoreRead(v)
    \/ \E v \in Venues : LkFeedFind(v)
    \/ \E v \in Venues : LkFeedBookWrite(v)
    \/ \E msg \in LockKalshiMsgs : LkKalshiStore(msg)
    \/ \E msg \in LockPolyMsgs : LkPolyStore(msg)
    \/ LkDetTick
    \/ LkDetStoreRead
    \/ LkDetKalshiRead
    \/ LkDetPolyRead
    \/ LkDetDetect
    \/ LkDetTrackerRead
    \/ LkDetAdmit
    \/ LkDetSend
    \/ LkExecRecv
    \/ LkExecClosed
    \/ LkExecTrackerWrite
    \/ LkExecRecord
    \/ LkMonTick
    \/ LkMonTrackerRead
    \/ LkMonCheck

\* the quotes of 40 cents on both sides
QuotedKalshi == CHOOSE msg \in KalshiMsgs : msg.yes_ask = Val(40)

QuotedPoly == CHOOSE msg \in PolyMsgs : msg.price # Missing

\* the system once both feeds have quoted every market
InitLocks ==
    /\ TasksInit
    /\ kalshi = [m \in Markets |-> KalshiBook(EmptyBook, QuotedKalshi)]
    /\ poly = [m \in Markets |->
                 PolyBook(PolyBook(EmptyBook, TRUE, QuotedPoly), FALSE, QuotedPoly)]
    /\ tracker = NewTracker
    /\ calls = [m \in Markets |-> 0]
    /\ scan_order = CHOOSE s \in ScanOrders : TRUE
    /\ overflow_checks = TRUE
    /\ dry_run = TRUE
    /\ max_position_size = MaxPositionSize
    /\ fn_in = Idle
    /\ fn_out = Idle

SpecLocks == InitLocks /\ [][NextLocks]_vars

-----------------------------------------------------------------------------
(* The fee and the winner as the design states them, in the integers *)

\* max(1, ceil(7 p (100 - p) / 10000)) for 1 <= p <= 99, else 0: the ceiling
\* is the least n with n * 10000 >= 7 p (100 - p)
StatedFee(p) ==
    IF p = 0 \/ p >= 100
    THEN 0
    ELSE LET x == 7 * p * (100 - p)
             c == CHOOSE n \in 0..2 : n * 10000 >= x /\ (n - 1) * 10000 < x
         IN  IF c < 1 THEN 1 ELSE c

\* the four combinations of the design, in evaluation order, with their cost
StatedCombos(in) ==
    << [arb_type |-> "PolyYesKalshiNo", yes |-> in.p_yes, no |-> in.k_no,
        fee |-> StatedFee(in.k_no)],
       [arb_type |-> "KalshiYesPolyNo", yes |-> in.k_yes, no |-> in.p_no,
        fee |-> StatedFee(in.k_yes)],
       [arb_type |-> "PolyOnly", yes |-> in.p_yes, no |-> in.p_no, fee |-> 0],
       [arb_type |-> "KalshiOnly", yes |-> in.k_yes, no |-> in.k_no,
        fee |-> StatedFee(in.k_yes) + StatedFee(in.k_no)] >>

StatedCost(in, i) ==
    StatedCombos(in)[i].yes + StatedCombos(in)[i].no + StatedCombos(in)[i].fee

StatedQualifying(in) == {i \in 1..4 : StatedCost(in, i) < 100}

\* the cheapest qualifying combination, the earliest among equals
StatedWinner(in) ==
    CHOOSE i \in StatedQualifying(in) :
        \A j \in StatedQualifying(in) :
            \/ StatedCost(in, i) < StatedCost(in, j)
            \/ StatedCost(in, i) = StatedCost(in, j) /\ i <= j

NonSentinel(in) == in.k_yes # 0 /\ in.k_no # 0 /\ in.p_yes # 0 /\ in.p_no # 0

InRange(in) == {in.k_yes, in.k_no, in.p_yes, in.p_no} \subseteq 1..99

DetectDone == fn_in.kind = "detect" /\ fn_out.kind # "idle"

IsStatedWinner(in, out) ==
    /\ out.kind = "some"
    /\ out.market_id = in.market_id
    /\ out.arb_type = StatedCombos(in)[StatedWinner(in)].arb_type
    /\ out.total_cost = StatedCost(in, StatedWinner(in))
    /\ out.profit = 100 - StatedCost(in, StatedWinner(in))

\* C1: for four non-sentinel prices detect_arbitrage returns the qualifying
\* combination of largest profit = 100 - total_cost, the earliest in
\* evaluation order among equals; with all four prices at 40 that is the
\* PolyOnly combination with total_cost 80 and profit 20.
C1_BestCombination ==
    (DetectDone /\ NonSentinel(fn_in)) =>
        /\ StatedQualifying(fn_in) # {} => IsStatedWinner(fn_in, fn_out)
        /\ {fn_in.k_yes, fn_in.k_no, fn_in.p_yes, fn_in.p_no} = {40} =>
              /\ fn_out.kind = "some"
              /\ fn_out.arb_type = "PolyOnly"
              /\ fn_out.total_cost = 80
              /\ fn_out.profit = 20

\* C1 for prices in [1, 99]: there the stated winner is returned
C1_BestCombinationInRange ==
    (DetectDone /\ InRange(fn_in)) => C1_BestCombination

\* C2: for four non-sentinel prices an opportunity is returned iff some
\* combination has yes_price + no_price + fee < 100, and every opportunity
\* returned has total_cost = yes_price + no_price + fee and
\* profit = 100 - total_cost.
C2_OpportunityIffBelowThreshold ==
    (DetectDone /\ NonSentinel(fn_in)) =>
        /\ fn_out.kind = "some" <=> StatedQualifying(fn_in) # {}
        /\ fn_out.kind = "some" =>
              /\ fn_out.total_cost = fn_out.yes_price + fn_out.no_price + fn_out.fee
              /\ fn_out.profit = 100 - fn_out.total_cost

\* C2 for prices in [1, 99]
C2_OpportunityIffBelowThresholdInRange ==
    (DetectDone /\ InRange(fn_in)) => C2_OpportunityIffBelowThreshold

\* the fee the design charges to a combination of the given type
StatedFeeOf(in, arb_type) ==
    IF arb_type = "PolyYesKalshiNo" THEN StatedFee(in.k_no)
    ELSE IF arb_type = "KalshiYesPolyNo" THEN StatedFee(in.k_yes)
    ELSE IF arb_type = "PolyOnly" THEN 0
    ELSE StatedFee(in.k_yes) + StatedFee(in.k_no)

\* C4: each combination is charged the venue-A fee of exactly its venue-A
\* legs: combination 1 fee(k_no), combination 2 fee(k_yes), combination 3
\* nothing, combination 4 fee(k_yes) + fee(k_no); the opportunity returned
\* carries that fee and counts it in its total cost.
C4_FeePerCombination ==
    fn_in.kind = "detect" =>
        LET combos == Combinations(fn_in.k_yes, fn_in.k_no, fn_in.p_yes, fn_in.p_no)
        IN  /\ \A i \in 1..4 :
                 /\ combos[i].arb_type = ArbTypes[i]
                 /\ combos[i].fee = StatedFeeOf(fn_in, ArbTypes[i])
            /\ <<combos[1].yes_price, combos[1].no_price>> = <<fn_in.p_yes, fn_in.k_no>>
            /\ <<combos[2].yes_price, combos[2].no_price>> = <<fn_in.k_yes, fn_in.p_no>>
            /\ <<combos[3].yes_price, combos[3].no_price>> = <<fn_in.p_yes, fn_in.p_no>>
            /\ <<combos[4].yes_price, combos[4].no_price>> = <<fn_in.k_yes, fn_in.k_no>>
            /\ fn_out.kind = "some" =>
                 /\ fn_out.fee = StatedFeeOf(fn_in, fn_out.arb_type)
                 /\ fn_out.total_cost =
                       (fn_out.yes_price + fn_out.no_price + fn_out.fee) % U16

\* the venue-A-only combination won and paid the fee on both of its legs
C4_Witness ==
    /\ DetectDone
    /\ fn_out.kind = "some"
    /\ fn_out.arb_type = "KalshiOnly"
    /\ fn_in.k_yes = 40 /\ fn_in.k_no = 49
    /\ fn_out.fee = 4
    /\ fn_out.total_cost = 93

FeeDone == fn_in.kind = "fee" /\ fn_out.kind = "fee"

\* C5: kalshi_fee_cents(p) is 0 for p = 0 and p >= 100 and otherwise
\* max(1, ceil(7 p (100 - p) / 10000)); fee(50) = 2, fee(10) = 1, fee(0) = 0,
\* fee(100) = 0, and fee(p) >= 1 on [1, 99].
C5_FeeFormula ==
    FeeDone =>
        /\ fn_out.value = StatedFee(fn_in.price_cents)
        /\ fn_in.price_cents = 50 => fn_out.value = 2
        /\ fn_in.price_cents = 10 => fn_out.value = 1
        /\ fn_in.price_cents = 0 => fn_out.value = 0
        /\ fn_in.price_cents = 100 => fn_out.value = 0
        /\ fn_in.price_cents >= 100 => fn_out.value = 0
        /\ fn_in.price_cents \in 1..99 => fn_out.value >= 1

\* the fee of 50 cents was computed
C5_Witness == FeeDone /\ fn_in.price_cents = 50 /\ fn_out.value = 2

\* 7 c (100 - c) / 10000 is never an integer on [1, 99], so the rounding
\* error of the f64 product cannot change its ceiling
FeeNeverExact == \A c \in 1..99 : (7 * c * (100 - c)) % 10000 >= 100

-----------------------------------------------------------------------------
(* The detector, the channel and the executor *)

OpenPosition(m) ==
    IF m \in DOMAIN tracker.positions THEN tracker.positions[m] ELSE 0

\* the detector task takes a step
DetStep == detVars' # detVars

\* one of the four prices of market m is the "no quote" sentinel
SentinelRead(m) ==
    NO_PRICE \in {kalshi[m].yes_ask, kalshi[m].no_ask,
                  poly[m].yes_ask, poly[m].no_ask}

\* a scan visits the markets one after the other, each once, and only the
\* detector's send step puts anything in the channel: the opportunity it
\* holds for the market it is at
ScanDiscipline ==
    /\ \A i, j \in 1..Len(scan_order) : scan_order[i] = scan_order[j] => i = j
    /\ det_idx' # det_idx => det_idx' = det_idx + 1 \/ det_idx' = 0
    /\ Len(chan') > Len(chan) => sent' = sent + 1
    /\ sent' # sent =>
          /\ det_pc = "send"
          /\ det_arb.kind = "some"
          /\ det_arb.market_id = CurMarket
          /\ chan' = Append(chan, [arb |-> det_arb, seq |-> sent',
                                   chk_pos |-> det_chk])
    /\ (det_pc' = "send" /\ DetStep) => det_pc = "admit" /\ det_idx' = det_idx
    /\ (det_pc' = "admit" /\ DetStep) => det_pc = "detect" /\ det_idx' = det_idx

\* C3: when the detector reads a market of which any of the four prices is
\* the sentinel 0, detection yields no opportunity and the detector goes on to
\* the next market with nothing enqueued for this one in this scan, whatever
\* the other three prices are.
C3_SentinelYieldsNothing ==
    [][ /\ ScanDiscipline
        /\ (det_pc = "detect" /\ DetStep /\ SentinelRead(CurMarket)) =>
              /\ det_arb' = None
              /\ det_pc' \in {"detect", "tick"}
              /\ det_pc' = "detect" => det_idx' = det_idx + 1
              /\ det_pc' = "tick" => det_idx = Len(scan_order)
              /\ chan' = chan
              /\ sent' = sent
      ]_vars

\* the detector has enqueued an opportunity for the first market of a scan
\* and is about to read the second, which has a sentinel among otherwise
\* tradable prices
C3_Witness ==
    /\ det_pc = "detect"
    /\ det_idx = 2
    /\ kalshi[CurMarket].yes_ask = NO_PRICE
    /\ kalshi[CurMarket].no_ask = 40
    /\ poly[CurMarket].yes_ask = 40
    /\ poly[CurMarket].no_ask = 40
    /\ sent = 1
    /\ Len(chan) = 1
    /\ chan[1].arb.market_id = scan_order[1]

\* C6: the detector enqueues an opportunity only if the position it read at
\* the admission check was strictly below the configured maximum; when the
\* position is equal or greater the opportunity is dropped, the channel is
\* left unchanged and the detector goes on to the next market.
C6_AdmissionCheck ==
    [][ /\ ScanDiscipline
        /\ (det_pc = "admit" /\ DetStep /\ ~TrackerPoisoned) =>
              IF OpenPosition(CurMarket) < max_position_size
              THEN /\ det_pc' = "send"
                   /\ det_arb' = det_arb
                   /\ det_chk' = OpenPosition(CurMarket)
                   /\ chan' = chan
              ELSE /\ det_pc' \in {"detect", "tick"}
                   /\ det_arb' = None
                   /\ chan' = chan
                   /\ sent' = sent
        /\ det_pc = "send" => det_chk < max_position_size
        /\ \A i \in 1..Len(chan) : chan[i].chk_pos < max_position_size
      ]_vars

\* the detector holds an opportunity for a market whose position is at the
\* maximum and is about to make the admission check; nothing is pending
C6_Witness ==
    /\ dry_run
    /\ det_pc = "admit"
    /\ det_arb.kind = "some"
    /\ det_arb.market_id = CurMarket
    /\ OpenPosition(CurMarket) = max_position_size
    /\ chan = <<>>
    /\ exec_arb = None
    /\ sent = 1

\* number of trades recorded for market m before the i-th recorded trade
RecordedBefore(m, i) ==
    Cardinality({j \in 1..(i - 1) : recorded[j].market_id = m})

\* the i-th recorded trade was admitted on a position that earlier pending
\* opportunities have since raised
StaleAdmission(i) ==
    recorded[i].chk_pos < RecordedBefore(recorded[i].market_id, i)

StaleAdmissions(m) ==
    {i \in 1..Len(recorded) : recorded[i].market_id = m /\ StaleAdmission(i)}

\* C7: the admission check and the later record_trade are not one
\* transaction: a market's position exceeds the configured maximum exactly
\* through opportunities that passed the check while earlier ones for the
\* same market were still unrecorded; every recorded opportunity did pass the
\* check, and the excess is at most the number of such stale admissions.
C7_OvershootOnlyByRace ==
    dry_run =>
        /\ \A i \in 1..Len(recorded) : recorded[i].chk_pos < max_position_size
        /\ \A m \in Markets :
              /\ OpenPosition(m) = RecordedBefore(m, Len(recorded) + 1)
              /\ OpenPosition(m) <=
                     max_position_size + Cardinality(StaleAdmissions(m))
              /\ OpenPosition(m) > max_position_size => StaleAdmissions(m) # {}

\* two opportunities for one market were admitted on the same position, in
\* two scans, both were recorded, and the position is above the maximum
C7_Witness ==
    \E m \in Markets :
        /\ OpenPosition(m) > max_position_size
        /\ \E i, j \in 1..Len(recorded) :
              /\ i < j
              /\ recorded[i].market_id = m
              /\ recorded[j].market_id = m
              /\ recorded[i].chk_pos = recorded[j].chk_pos
              /\ recorded[i].seq < recorded[j].seq

-----------------------------------------------------------------------------
(* The position tracker *)

\* values of max_size the admission check is asked about
MaxSizes == {0, 1, 2, 3, U16 - 1}

\* C8: for every market m and every max_size, can_trade(m, max_size) is true
\* before max_size trades have been recorded for m and false once max_size
\* trades have been recorded, and it stays false after any further
\* record_trade calls.
C8_CanTradeUntilMax ==
    \A m \in Markets, max_size \in MaxSizes :
        can_trade(tracker, m, max_size) <=> calls[m] < max_size

\* C8 while fewer than 2^16 trades have been recorded for the market
C8_CanTradeUntilMaxBelowWrap ==
    (\A m \in Markets : calls[m] < U16) => C8_CanTradeUntilMax

\* a step in which record_trade was called
RecordCall ==
    /\ fn_in'.kind = "record"
    /\ recorded' # recorded \/ exec_pc' # exec_pc

\* C9: record_trade(m, profit) always succeeds; it raises the position of m
\* by one, adds the signed profit to the cumulative P&L, raises the trade
\* count by one and leaves the positions of all other markets unchanged.
C9_RecordTradeEffect ==
    [][ RecordCall =>
          /\ exec_pc' # "panicked"
          /\ get_position(tracker', fn_in'.market_id) =
                 get_position(tracker, fn_in'.market_id) + 1
          /\ tracker'.total_pnl = tracker.total_pnl + fn_in'.profit_cents
          /\ tracker'.trade_count = tracker.trade_count + 1
          /\ \A o \in Markets \ {fn_in'.market_id} :
                 get_position(tracker', o) = get_position(tracker, o)
      ]_vars

\* C9 for a market whose position is below u16::MAX
C9_RecordTradeEffectBelowMax ==
    [][ (RecordCall /\ get_position(tracker, fn_in'.market_id) < U16 - 1) =>
          /\ exec_pc' # "panicked"
          /\ get_position(tracker', fn_in'.market_id) =
                 get_position(tracker, fn_in'.market_id) + 1
          /\ tracker'.total_pnl = tracker.total_pnl + fn_in'.profit_cents
          /\ tracker'.trade_count = tracker.trade_count + 1
          /\ \A o \in Markets \ {fn_in'.market_id} :
                 get_position(tracker', o) = get_position(tracker, o)
      ]_vars

-----------------------------------------------------------------------------
(* Consumption of the enqueued opportunities *)

Held == exec_arb # None

\* how many times the opportunity enqueued as the i-th is in the channel, in
\* the executor's hands, or recorded
CopiesPending(i) ==
    Cardinality({j \in 1..Len(chan) : chan[j].seq = i})
        + (IF Held /\ exec_arb.seq = i THEN 1 ELSE 0)

CopiesRecorded(i) ==
    Cardinality({j \in 1..Len(recorded) : recorded[j].seq = i})

\* C10: in simulation mode every opportunity the detector enqueued is
\* consumed exactly once: at any moment it is either still waiting (in the
\* channel or in the executor's hands) or recorded by exactly one record_trade
\* call, never recorded twice and never lost.
C10_ConsumedExactlyOnce ==
    dry_run =>
        /\ \A i \in 1..sent : CopiesPending(i) + CopiesRecorded(i) = 1
        /\ \A i \in 1..sent : CopiesRecorded(i) <= 1
        /\ Len(recorded) + Len(chan) + (IF Held THEN 1 ELSE 0) = sent

\* C10, the executor's step: in simulation mode handling an opportunity is one
\* record_trade call with that opportunity's market id and profit
C10_HandleRecords ==
    [][ (dry_run /\ exec_pc = "handle" /\ exec_pc' # exec_pc) =>
          /\ exec_pc' = "recv"
          /\ recorded' = Append(recorded,
                 [market_id |-> exec_arb.arb.market_id,
                  profit |-> exec_arb.arb.profit,
                  seq |-> exec_arb.seq, chk_pos |-> exec_arb.chk_pos])
          /\ tracker' = record_trade(tracker, exec_arb.arb.market_id,
                                     exec_arb.arb.profit)
      ]_vars

\* C10, under fair scheduling of the executor: in simulation mode every
\* enqueued opportunity is eventually recorded
C10_EventuallyRecorded ==
    \A i \in 1..MaxSent :
        (dry_run /\ sent >= i) ~> (CopiesRecorded(i) = 1)

-----------------------------------------------------------------------------
(* Order of delivery *)

\* the opportunities enqueued so far that have left the channel
Dequeued == sent - Len(chan)

\* C11: opportunities reach the executor in the order the detector enqueued
\* them, one at a time: the channel holds the latest ones in enqueue order,
\* the executor holds the one enqueued just before those, each receive takes
\* the oldest waiting one, and in simulation mode the trades recorded are the
\* opportunities enqueued before that, in enqueue order.
C11_FifoOrder ==
    [][ /\ \A i \in 1..Len(chan) : chan[i].seq = Dequeued + i
        /\ Held => exec_arb.seq = Dequeued
        /\ dry_run =>
              /\ Len(recorded) = Dequeued - (IF Held THEN 1 ELSE 0)
              /\ \A i \in 1..Len(recorded) : recorded[i].seq = i
        /\ Len(chan') < Len(chan) =>
              /\ ~Held
              /\ exec_arb' = Head(chan)
              /\ chan' = Tail(chan)
        /\ (Held /\ exec_arb' # exec_arb) => exec_arb' = None
      ]_vars

\* one opportunity is recorded, the next is in the executor's hands and a
\* third waits in the channel
C11_Witness ==
    /\ dry_run
    /\ Len(recorded) = 1
    /\ Held
    /\ Len(chan) = 1
    /\ recorded[1].seq < exec_arb.seq
    /\ exec_arb.seq < chan[1].seq

-----------------------------------------------------------------------------
(* One opportunity per market per scan *)

\* C12: in one scan of the store the detector enqueues at most one
\* opportunity per market, even when several combinations qualify: an
\* enqueue is for the market the scan is at, for which nothing was enqueued
\* earlier in this scan, and it is the single best opportunity of that market.
C12_OnePerMarketPerScan ==
    [][ sent' # sent =>
          /\ sent' = sent + 1
          /\ Len(chan') = Len(chan) + 1
          /\ chan'[Len(chan')].arb.market_id = CurMarket
          /\ CurMarket \notin scan_sent
          /\ det_pc' = "detect" => scan_sent' = scan_sent \cup {CurMarket}
          /\ Cardinality(scan_sent') <= Cardinality(Markets)
      ]_vars

\* the detector holds for the market it is at an opportunity found where more
\* than one combination qualified (all four prices at 40: three qualify), after
\* enqueuing for the market before it in the same scan
C12_Witness ==
    /\ det_pc = "send"
    /\ det_idx = 2
    /\ scan_sent = {scan_order[1]}
    /\ kalshi[CurMarket].yes_ask = 40 /\ kalshi[CurMarket].no_ask = 40
    /\ poly[CurMarket].yes_ask = 40 /\ poly[CurMarket].no_ask = 40
    /\ det_arb.market_id = CurMarket

-----------------------------------------------------------------------------
(* Monotone positions *)

\* C13: for every market the open-position counter never becomes smaller,
\* across every step of every task, including the increment of the 16-bit
\* counter at its maximum value.
C13_PositionsNeverDecrease ==
    [][ \A m \in Markets :
          get_position(tracker', m) >= get_position(tracker, m) ]_vars

\* C13 while the counter is below u16::MAX
C13_PositionsNeverDecreaseBelowMax ==
    [][ \A m \in Markets :
          get_position(tracker, m) < U16 - 1 =>
              get_position(tracker', m) >= get_position(tracker, m) ]_vars

-----------------------------------------------------------------------------
(* The circuit breaker *)

\* the loss the heartbeat compares: the negated cumulative P&L
TotalLoss == -tracker.total_pnl

C15_MonitorObservesOnly ==
    /\ [][ (alarm' # alarm \/ alarms' # alarms) =>
              UNCHANGED <<tracker, chan, kalshi, poly, detVars, execVars>> ]_vars
    /\ [](alarm =>
            /\ (det_pc = "send" /\ ~ReceiverDropped) =>
                  ENABLED (DetSend /\ Len(chan') = Len(chan) + 1)
            /\ (exec_pc = "handle" /\ dry_run
                   /\ get_position(tracker, exec_arb.arb.market_id) < U16 - 1) =>
                  ENABLED (ExecHandle /\ Len(recorded') = Len(recorded) + 1)
            /\ \A k \in KalshiKeys \ {UnknownKey}, msg \in KalshiMsgs :
                  ENABLED (KalshiUpdate(k, msg)
                             /\ \A m \in FindByTicker(k) :
                                   kalshi'[m] = KalshiBook(kalshi[m], msg))
            /\ \A k \in PolyKeys \ {UnknownKey}, msg \in PolyMsgs :
                  ENABLED PolyUpdate(k, msg))

\* the warning was raised on the initial loss, and since then an opportunity
\* was detected, enqueued and recorded (the loss is back under the ceiling),
\* another one is waiting, and a feed has updated a book
C15_Witness ==
    /\ alarm
    /\ alarms = 1
    /\ Len(recorded) = 1
    /\ TotalLoss <= MaxDailyLossCents
    /\ Len(chan) = 1
    /\ \E m \in Markets : kalshi[m] # EmptyBook /\ poly[m] # EmptyBook

-----------------------------------------------------------------------------
(* The stored quotes *)

\* 0 (no quote) or a price of 1 to 99 cents
QuoteInRange(p) == p = NO_PRICE \/ (1 <= p /\ p <= 99)

\* C16: whatever the feeds deliver, every stored yes_ask and no_ask of every
\* market on both venues is 0 or lies between 1 and 99
C16_StoredPricesInRange ==
    \A m \in Markets :
        /\ QuoteInRange(kalshi[m].yes_ask) /\ QuoteInRange(kalshi[m].no_ask)
        /\ QuoteInRange(poly[m].yes_ask) /\ QuoteInRange(poly[m].no_ask)

\* what holds of C16: the venue-B quotes, which pass through price_to_cents,
\* are always 0 or between 1 and 99
C16_VenueBPricesInRange ==
    \A m \in Markets :
        QuoteInRange(poly[m].yes_ask) /\ QuoteInRange(poly[m].no_ask)

\* prices in thousandths of a dollar, from -0.05 to 70.00, on which
\* price_to_cents is examined
PolyMillis == (-50..1200) \cup {65000, 65535 * 10, 70000}

\* what holds of C16: price_to_cents yields 0 to 99 for negative prices and for
\* prices of a dollar and more
C16_PriceToCentsInRange ==
    \A milli \in PolyMillis : QuoteInRange(price_to_cents(milli))

\* a field of a venue-A message as it is to be stored: 0 when absent
StatedField(v) == IF v = Missing THEN NO_PRICE ELSE AsU16(v[1])

\* the venue-A book after a message: every field taken from the message
StatedKalshiBook(msg) ==
    [yes_ask |-> StatedField(msg.yes_ask),
     no_ask |-> StatedField(msg.no_ask),
     yes_size |-> StatedField(msg.yes_ask_size),
     no_size |-> StatedField(msg.no_ask_size)]

\* the venue-B price after a message: 0 when absent
StatedPolyPrice(msg) ==
    IF msg.price = Missing THEN NO_PRICE ELSE price_to_cents(msg.price[1])

\* C17: an update for a known market that lacks a price is still applied: a
\* venue-A book that changes becomes what some message carries, with 0 for
\* every field the message lacks, whatever was quoted before; a venue-B book
\* that changes does so on one side, whose price becomes what some message
\* carries, 0 if it lacks the price; so a price that is 0 becomes non-zero
\* only by an update that carries it; while a price of a market is 0 a
\* detection of that market yields nothing and enqueues nothing; and in every
\* state an update that lacks its price can be taken for every market and
\* stores 0
C17_MissingPriceIsSentinel ==
    /\ [][ /\ \A m \in Markets :
                /\ kalshi'[m] # kalshi[m] =>
                      \E msg \in KalshiMsgs : kalshi'[m] = StatedKalshiBook(msg)
                /\ poly'[m] # poly[m] =>
                      \E msg \in PolyMsgs :
                         \/ /\ poly'[m].yes_ask = StatedPolyPrice(msg)
                            /\ poly'[m].no_ask = poly[m].no_ask
                            /\ poly'[m].no_size = poly[m].no_size
                         \/ /\ poly'[m].no_ask = StatedPolyPrice(msg)
                            /\ poly'[m].yes_ask = poly[m].yes_ask
                            /\ poly'[m].yes_size = poly[m].yes_size
            /\ (det_pc = "detect" /\ DetStep /\ SentinelRead(CurMarket)) =>
                  det_arb' = None /\ sent' = sent /\ chan' = chan
          ]_vars
    /\ [](\A m \in Markets :
            /\ \A msg \in {x \in KalshiMsgs : x.yes_ask = Missing} :
                  ENABLED (KalshiUpdate(KalshiTicker(m), msg)
                             /\ kalshi'[m] = StatedKalshiBook(msg))
            /\ \A msg \in {x \in PolyMsgs : x.price = Missing} :
                  /\ ENABLED (PolyUpdate(PolyYesToken(m), msg)
                                /\ poly'[m].yes_ask = NO_PRICE)
                  /\ ENABLED (PolyUpdate(PolyNoToken(m), msg)
                                /\ poly'[m].no_ask = NO_PRICE))

\* an opportunity was enqueued for a market when all its prices were quoted;
\* a venue-A update without yes_ask has since put 0 over the quote, and the
\* detector is about to read that market again
C17_Witness ==
    /\ det_pc = "detect"
    /\ kalshi[CurMarket] = [yes_ask |-> NO_PRICE, no_ask |-> 40,
                            yes_size |-> 0, no_size |-> 500]
    /\ poly[CurMarket].yes_ask = 40
    /\ poly[CurMarket].no_ask = 40
    /\ Len(chan) = 1
    /\ chan[1].arb.market_id = CurMarket
    /\ OpenPosition(CurMarket) = 0

\* C18: an update whose routing key matches no configured market is ignored:
\* the handler returns Ok, in every reachable state such an update can be
\* taken, on either venue and whatever it carries, and taking it changes no
\* orderbook; and the set of markets is the configured one in every reachable
\* state
C18_UnknownKeyIgnored ==
    /\ HandlerResult(UnknownKey) = "Ok"
    /\ \A msg \in KalshiMsgs :
          /\ ENABLED KalshiUpdate(UnknownKey, msg)
          /\ ~ENABLED (KalshiUpdate(UnknownKey, msg)
                         /\ (kalshi' # kalshi \/ poly' # poly))
    /\ \A msg \in PolyMsgs :
          /\ ENABLED PolyUpdate(UnknownKey, msg)
          /\ ~ENABLED (PolyUpdate(UnknownKey, msg)
                         /\ (kalshi' # kalshi \/ poly' # poly))
    /\ DOMAIN kalshi = Markets
    /\ DOMAIN poly = Markets

\* both venues quote a market, an opportunity for it is waiting in the
\* channel, and an update with an unknown key arrives
C18_Witness ==
    /\ \E m \in Markets :
          /\ kalshi[m].yes_ask = 40 /\ kalshi[m].no_ask = 40
          /\ poly[m].yes_ask = 40 /\ poly[m].no_ask = 40
          /\ Len(chan) = 1 /\ chan[1].arb.market_id = m
    /\ \E msg \in KalshiMsgs :
          msg.yes_ask = Val(-36) /\ ENABLED KalshiUpdate(UnknownKey, msg)

\* a step of the detector, the executor or the monitor
TaskStep ==
    \/ DetTick \/ DetDetect \/ DetAdmit \/ DetSend
    \/ ExecRecv \/ ExecClosed \/ ExecHandle
    \/ MonitorCheck

\* C19: the venue-A book of a market changes only by a venue-A update routed
\* to that market, and the venue-B book only by a venue-B update routed to it;
\* an update of one venue for one market leaves the other venue's books and
\* the other markets' books as they were; a reconnection of a feed, a step of
\* the detector, of the executor or of the monitor changes no book
C19_BooksChangeOnlyByOwnFeed ==
    [][ /\ \A m \in Markets :
              /\ kalshi'[m] # kalshi[m] =>
                    /\ \E msg \in KalshiMsgs : kalshi'[m] = KalshiBook(kalshi[m], msg)
                    /\ poly' = poly
                    /\ \A o \in Markets \ {m} : kalshi'[o] = kalshi[o]
              /\ poly'[m] # poly[m] =>
                    /\ \E msg \in PolyMsgs, is_yes \in BOOLEAN :
                          poly'[m] = PolyBook(poly[m], is_yes, msg)
                    /\ kalshi' = kalshi
                    /\ \A o \in Markets \ {m} : poly'[o] = poly[o]
        /\ bookVars' # bookVars =>
              /\ UNCHANGED <<detVars, execVars, monVars, tracker, chan, histVars>>
              /\ ~TaskStep
              /\ \A v \in Venues : ~FeedReconnect(v)
      ]_vars

\* one market is quoted on both venues and a trade of it was recorded, the
\* other is quoted on venue A only, and the detector is in the middle of a
\* scan
C19_Witness ==
    /\ \E m \in Markets, o \in Markets :
          /\ m # o
          /\ kalshi[m].yes_ask = 40 /\ poly[m].yes_ask = 40 /\ poly[m].no_ask = 40
          /\ kalshi[o].no_ask = 40 /\ poly[o] = EmptyBook
          /\ Len(recorded) = 1
          /\ recorded[1].market_id = m
    /\ det_pc = "detect"
    /\ det_idx = 2

-----------------------------------------------------------------------------
(* Waiting between the tasks *)

\* the lock a task is about to acquire, if it is at an acquisition
Wants(t) ==
    IF t \in Venues
    THEN IF feed_pc[t].pc = "store" THEN {StoreLock}
         ELSE IF feed_pc[t].pc = "book" THEN {BookLock(t, FeedMarket(t))}
         ELSE {}
    ELSE IF t = "detector"
    THEN IF det_pc = "store" THEN {StoreLock}
         ELSE IF det_pc = "kalshi" THEN {BookLock("kalshi", CurMarket)}
         ELSE IF det_pc = "poly" THEN {BookLock("poly", CurMarket)}
         ELSE IF det_pc = "tracker" THEN {TrackerLock}
         ELSE {}
    ELSE IF t = "executor"
    THEN IF exec_pc = "write" THEN {TrackerLock} ELSE {}
    ELSE IF mon_pc = "read" THEN {TrackerLock} ELSE {}

\* the tasks that keep t from the lock it wants: every other holder if t
\* wants to write, the writer that holds it if t wants to read
BlockedBy(t) ==
    UNION { IF t \in Writers(l) THEN held[l] \ {t} ELSE held[l] \cap Writers(l)
            : l \in Wants(t) }

\* the tasks t may have to wait for under any policy of the lock: those that
\* block it, and a writer already waiting for a lock t wants to read
WaitsFor(t) ==
    BlockedBy(t) \cup
    UNION { IF t \in Writers(l) THEN {} ELSE {w \in Writers(l) : l \in Wants(w)}
            : l \in Wants(t) }

RECURSIVE WaitChain(_, _)
WaitChain(S, n) ==
    IF n = 0 THEN S
    ELSE WaitChain(S \cup UNION {WaitsFor(u) : u \in S}, n - 1)

\* the tasks t waits for, directly or through others
WaitsForTransitively(t) == WaitChain(WaitsFor(t), Cardinality(Tasks))

\* the task is inside an iteration of its loop: not at its timer, not waiting
\* for a message, not ended
Running(t) ==
    IF t \in Venues THEN feed_pc[t].pc # "idle"
    ELSE IF t = "detector" THEN det_pc \notin {"tick", "panicked"}
    ELSE IF t = "executor" THEN exec_pc \in {"write", "handle"}
    ELSE mon_pc \in {"read", "check"}

\* a step of task t
TaskNext(t) ==
    \/ /\ t \in Venues
       /\ \/ \E key \in FeedKeys(t) : LkFeedMessage(t, key)
          \/ LkFeedStoreRead(t)
          \/ LkFeedFind(t)
          \/ LkFeedBookWrite(t)
          \/ t = "kalshi" /\ \E msg \in LockKalshiMsgs : LkKalshiStore(msg)
          \/ t = "poly" /\ \E msg \in LockPolyMsgs : LkPolyStore(msg)
    \/ /\ t = "detector"
       /\ \/ LkDetTick \/ LkDetStoreRead \/ LkDetKalshiRead \/ LkDetPolyRead
          \/ LkDetDetect \/ LkDetTrackerRead \/ LkDetAdmit \/ LkDetSend
    \/ /\ t = "executor"
       /\ (LkExecRecv \/ LkExecClosed \/ LkExecTrackerWrite \/ LkExecRecord)
    \/ /\ t = "monitor"
       /\ (LkMonTick \/ LkMonTrackerRead \/ LkMonCheck)

\* C20: with every lock acquisition and every channel operation a step of
\* its own, no task blocks another for ever: no task waits for itself through
\* a chain of waiting tasks; whoever holds a guard is inside an iteration and
\* is not itself about to acquire that lock; a task inside an iteration that
\* no holder blocks can take its next step, so that every chain of waiting
\* ends at a task that can move; an ended task holds nothing; some task can
\* always take a step; and the detector's send can be taken whatever number
\* of opportunities wait in the channel
C20_NoTaskBlocksAnother ==
    /\ \A t \in Tasks : t \notin WaitsForTransitively(t)
    /\ \A l \in Locks : \A t \in held[l] : Running(t) /\ l \notin Wants(t)
    /\ \A t \in Tasks : (Running(t) /\ BlockedBy(t) = {}) => ENABLED TaskNext(t)
    /\ \A t \in Tasks : ~Running(t) => \A l \in Locks : t \notin held[l]
    /\ \E t \in Tasks : ENABLED TaskNext(t)
    /\ det_pc = "send" => ENABLED LkDetSend

\* venue A's feed waits for a book the detector reads, the detector waits for
\* the venue-B book of the same market that venue B's feed is writing, the
\* executor, which has dequeued the opportunity of the first market, waits for
\* the tracker the monitor reads
C20_Witness ==
    /\ det_pc = "poly"
    /\ feed_pc["kalshi"].pc = "book"
    /\ FeedMarket("kalshi") = CurMarket
    /\ "detector" \in held[BookLock("kalshi", CurMarket)]
    /\ feed_pc["poly"].pc = "write"
    /\ "poly" \in held[BookLock("poly", CurMarket)]
    /\ exec_pc = "write"
    /\ mon_pc = "check"
    /\ "monitor" \in held[TrackerLock]
    /\ det_idx = 2
    /\ sent = 1
    /\ WaitsForTransitively("kalshi") = {"detector", "poly"}
    /\ WaitsForTransitively("executor") = {"monitor"}

-----------------------------------------------------------------------------
(* C21: profits, P&L and the advisory alarm *)

\* the opportunities enqueued and not yet recorded, and the profits recorded
PendingProfits ==
    {chan[i].arb.profit : i \in 1..Len(chan)}
        \cup (IF Held THEN {exec_arb.arb.profit} ELSE {})

RecordedProfits == {recorded[i].profit : i \in 1..Len(recorded)}

\* C21: every opportunity the detector enqueues has a profit of at least one
\* cent, cumulative P&L is never negative and never decreases, and the
\* monitor's breach condition is false at every cycle: no alarm is ever
\* raised.
C21_AlarmNeverRaised ==
    [][ /\ \A p \in PendingProfits' \cup RecordedProfits' : p >= 1
        /\ tracker'.total_pnl >= 0
        /\ tracker'.total_pnl >= tracker.total_pnl
        /\ ~Breached(tracker')
        /\ ~alarm'
        /\ alarms' = 0 ]_vars

\* The part of C21 that holds at any age of the system: every opportunity
\* enqueued, and every profit recorded, is at least one cent.
C21_EnqueuedProfitAtLeastOne ==
    \A p \in PendingProfits \cup RecordedProfits : p >= 1

\* While the sum of the recorded profits stays within i32 the rest of C21
\* holds as well.
C21_NoAlarmWithinI32 ==
    [][ /\ tracker'.total_pnl >= tracker.total_pnl
        /\ tracker'.total_pnl >= 0
        /\ ~alarm'
        /\ alarms' = 0 ]_vars /\ [](~ENABLED (MonitorCheck /\ alarm'))

-----------------------------------------------------------------------------
(* C22: the 16-bit cost sum of an enqueued opportunity *)

\* the opportunities enqueued and not yet recorded
PendingArbs ==
    {chan[i].arb : i \in 1..Len(chan)} \cup (IF Held THEN {exec_arb.arb} ELSE {})

\* C22: every enqueued opportunity has both prices in [1, 99] and an exact
\* cost yes_price + no_price + fee below 100, whatever 16-bit values venue A
\* stored: the 16-bit sum never overflows, so the detector is never aborted
\* and never enqueues on a wrapped sum.
C22_EnqueuedCostExact ==
    /\ det_pc # "panicked"
    /\ \A a \in PendingArbs :
          /\ a.yes_price \in 1..99
          /\ a.no_price \in 1..99
          /\ a.yes_price + a.no_price + a.fee < ARB_THRESHOLD_CENTS
          /\ a.total_cost = a.yes_price + a.no_price + a.fee

\* The part of C22 that holds: with every stored venue-A price below 100 (as
\* all venue-B prices are) an enqueued opportunity has prices in [1, 99] and
\* the exact cost, and the sum does not overflow.
C22_ExactWhenStoredInRange ==
    [][ (\A m \in Markets : kalshi[m].yes_ask < 100 /\ kalshi[m].no_ask < 100)
        => /\ det_pc = "detect" => det_pc' # "panicked"
           /\ (det_pc = "detect" /\ det_arb'.kind = "some")
                 => /\ det_arb'.yes_price \in 1..99
                    /\ det_arb'.no_price \in 1..99
                    /\ det_arb'.total_cost
                         = det_arb'.yes_price + det_arb'.no_price + det_arb'.fee
                    /\ det_arb'.total_cost < ARB_THRESHOLD_CENTS ]_vars

-----------------------------------------------------------------------------
(* C23: no enqueue for a market once its position has reached the maximum *)

\* the position of market m has reached the configured maximum: positions
\* start at 0 and rise by one with every record_trade call for the market
ReachedMax(m) == calls[m] >= max_position_size

\* the detector's send puts an opportunity for m in the channel
Enqueues(m) ==
    /\ sent' = sent + 1
    /\ chan'[Len(chan')].arb.market_id = m

\* opportunities for m waiting in the channel or in the executor's hands
PendingFor(m) ==
    Cardinality({i \in 1..Len(chan) : chan[i].arb.market_id = m})
        + (IF Held /\ exec_arb.arb.market_id = m THEN 1 ELSE 0)

\* the admission check passes for m
Admits(m) ==
    /\ det_pc = "admit"
    /\ det_pc' = "send"
    /\ CurMarket = m

\* C23: once the position of a market has reached the configured maximum the
\* detector never again enqueues an opportunity for it, so that the trades
\* recorded beyond the maximum come only from the opportunities that were
\* pending (in the channel or in the executor's hands) when the maximum was
\* reached: from then on the trades recorded plus the opportunities pending
\* for the market do not grow.
C23_NoEnqueueOnceAtMax ==
    [][ \A m \in Markets :
          ReachedMax(m) =>
             /\ ~Enqueues(m)
             /\ calls'[m] + PendingFor(m)' <= calls[m] + PendingFor(m) ]_vars

\* The weaker statement about the admission check: once the position of a
\* market has reached the maximum the check never again passes for it.
C23_NoAdmissionOnceAtMax ==
    [][ \A m \in Markets : ReachedMax(m) => ~Admits(m) ]_vars

-----------------------------------------------------------------------------
(* C24: admissions that never overlap a pending opportunity *)

\* envelopes for market m: waiting in the channel or in the executor's hands
PendingEnvelopes(m) ==
    {chan[i] : i \in {j \in 1..Len(chan) : chan[j].arb.market_id = m}}
        \cup (IF Held /\ exec_arb.arb.market_id = m THEN {exec_arb} ELSE {})

\* record_trade calls for m made for the opportunity enqueued as the seq-th
\* or for a later one
RecordedFrom(m, seq) ==
    Cardinality({j \in 1..Len(recorded) :
                    recorded[j].market_id = m /\ recorded[j].seq >= seq})

\* the admission check of an opportunity for m, enqueued as the seq-th after
\* the check read position chk_pos, found no earlier opportunity for m
\* pending: none enqueued before it is pending now, and the position it read
\* is the position just before its own record_trade
FreshAdmission(m, seq, chk_pos) ==
    /\ \A e \in PendingEnvelopes(m) : e.seq >= seq
    /\ chk_pos = calls[m] - RecordedFrom(m, seq)

\* every admission check passed for m so far (of the opportunities recorded,
\* of those pending, and of the one the detector is about to send) found no
\* earlier opportunity for m pending
AlwaysFreshAdmission(m) ==
    /\ \A i \in 1..Len(recorded) :
          recorded[i].market_id = m
             => FreshAdmission(m, recorded[i].seq, recorded[i].chk_pos)
    /\ \A e \in PendingEnvelopes(m) : FreshAdmission(m, e.seq, e.chk_pos)
    /\ (det_pc = "send" /\ CurMarket = m) => FreshAdmission(m, sent + 1, det_chk)

\* C24: if no admission check for a market ever found an earlier opportunity
\* for that market still pending, the market's open position does not exceed
\* the configured maximum position size.
C24_NoOvershootWithoutPending ==
    \A m \in Markets :
        AlwaysFreshAdmission(m) => OpenPosition(m) <= max_position_size

\* every market was admitted once with nothing pending, its opportunity is
\* recorded and its position stands at the maximum; the detector is scanning
\* again and has come to a market whose position is at the maximum
C24_Witness ==
    /\ dry_run
    /\ \A m \in Markets :
          /\ AlwaysFreshAdmission(m)
          /\ OpenPosition(m) = max_position_size
          /\ \E i \in 1..Len(recorded) : recorded[i].market_id = m
    /\ det_idx = 2
    /\ det_pc = "detect"
    /\ sent = Cardinality(Markets)

-----------------------------------------------------------------------------
(* C25: trade count, positions and P&L against the trades recorded *)

\* the sum of the open positions over all markets
SumPositions == SumOver(tracker.positions, DOMAIN tracker.positions)

\* the sum of the profits of the record_trade calls from the i-th on
RECURSIVE ProfitsFrom(_)
ProfitsFrom(i) ==
    IF i > Len(recorded) THEN 0 ELSE recorded[i].profit + ProfitsFrom(i + 1)

\* C25: the trade count equals the sum of the open positions over all
\* markets, in simulation mode both equal the number of opportunities
\* recorded so far, every step adds to cumulative P&L exactly the profits of
\* the opportunities it records, and every market present in the position map
\* has a position of at least 1.
C25_TotalsMatchRecorded ==
    /\ [][ tracker'.total_pnl - tracker.total_pnl
              = SumOver([m \in Markets |->
                           IF Len(recorded') > Len(recorded)
                              /\ recorded'[Len(recorded')].market_id = m
                           THEN recorded'[Len(recorded')].profit ELSE 0],
                        Markets) ]_vars
    /\ [](/\ tracker.trade_count = SumPositions
          /\ dry_run => tracker.trade_count = SumOver(calls, Markets)
          /\ \A m \in DOMAIN tracker.positions : tracker.positions[m] >= 1)

\* The same from a fresh tracker and while no counter has wrapped: trade
\* count, sum of positions and number of recorded opportunities agree, P&L is
\* the sum of the recorded profits, and no market is present with position 0.
C25_TotalsFromFreshStart ==
    /\ tracker.trade_count = SumPositions
    /\ tracker.trade_count = Len(recorded)
    /\ tracker.total_pnl = ProfitsFrom(1)
    /\ \A m \in DOMAIN tracker.positions : tracker.positions[m] >= 1

-----------------------------------------------------------------------------
(* One market's two orderbooks at the granularity of single fields: every
   store of a feed under its write guard (kalshi.rs 163-168, polymarket.rs
   176-185) and every load of detect_arbitrage under its two read guards
   (execution.rs 51-57) is a step of its own *)

FieldMarket == CHOOSE m \in Markets : TRUE

\* orderbook_delta bodies that differ in every field
FieldKalshiMsgs ==
    { [yes_ask |-> Val(40), no_ask |-> Val(42),
       yes_ask_size |-> Val(500), no_ask_size |-> Val(300)],
      [yes_ask |-> Val(49), no_ask |-> Val(50),
       yes_ask_size |-> Val(700), no_ask_size |-> Val(100)] }

\* book bodies that differ in price and size
FieldPolyMsgs ==
    { [price |-> Val(400), size |-> Val(2500)],
      [price |-> Val(420), size |-> Val(1000)] }

\* the order of the four stores of handle_orderbook_delta
KalshiStores == <<"yes_ask", "no_ask", "yes_size", "no_size">>

\* what the detector has loaded so far
NoReads == [kind |-> "reads", k_yes |-> Missing, k_no |-> Missing,
            p_yes |-> Missing, p_no |-> Missing]

\* the order of the four loads of detect_arbitrage
DetLoads == <<"k_yes", "k_no", "p_yes", "p_no">>

FdFrame == <<tracker, chan, det_idx, det_chk, scan_sent, execVars, monVars,
             cfgVars, histVars, fnVars, mon_pc>>

\* market_state.kalshi.write().unwrap() / market_state.poly.write().unwrap()
\* with the parsed fields of a message for the market in hand
FdFeedWrite(v, key, msg) ==
    /\ feed_pc[v].pc = "idle"
    /\ CanWrite(BookLock(v, FieldMarket))
    /\ held' = Acquire(BookLock(v, FieldMarket), v)
    /\ feed_pc' = [feed_pc EXCEPT ![v] =
                     [pc |-> IF v = "kalshi" THEN "yes_ask" ELSE "price",
                      key |-> key, msg |-> msg]]
    /\ UNCHANGED <<bookVars, det_pc, det_arb, FdFrame>>

\* book.yes_ask = yes_ask; book.no_ask = no_ask; book.yes_size = yes_size;
\* book.no_size = no_size; the guard is dropped after the last
FdKalshiStore ==
    /\ feed_pc["kalshi"].pc \in {KalshiStores[i] : i \in 1..4}
    /\ LET f == feed_pc["kalshi"].pc
           i == CHOOSE j \in 1..4 : KalshiStores[j] = f
           new == KalshiBook(kalshi[FieldMarket], feed_pc["kalshi"].msg)
       IN  /\ kalshi' = [kalshi EXCEPT ![FieldMarket] = [@ EXCEPT ![f] = new[f]]]
           /\ IF i < 4
              THEN /\ feed_pc' = [feed_pc EXCEPT !["kalshi"].pc = KalshiStores[i + 1]]
                   /\ UNCHANGED held
              ELSE /\ feed_pc' = [feed_pc EXCEPT !["kalshi"] = FeedIdle]
                   /\ held' = Release(held, {BookLock("kalshi", FieldMarket)}, "kalshi")
    /\ UNCHANGED <<poly, det_pc, det_arb, FdFrame>>

\* book.yes_ask = best_ask_price; book.yes_size = best_ask_size (or the no
\* side); the guard is dropped after the second
FdPolyStore ==
    /\ feed_pc["poly"].pc \in {"price", "size"}
    /\ LET is_yes == feed_pc["poly"].key = PolyYesToken(FieldMarket)
           new == PolyBook(poly[FieldMarket], is_yes, feed_pc["poly"].msg)
           f == IF feed_pc["poly"].pc = "price"
                THEN (IF is_yes THEN "yes_ask" ELSE "no_ask")
                ELSE (IF is_yes THEN "yes_size" ELSE "no_size")
       IN  /\ poly' = [poly EXCEPT ![FieldMarket] = [@ EXCEPT ![f] = new[f]]]
           /\ IF feed_pc["poly"].pc = "price"
              THEN /\ feed_pc' = [feed_pc EXCEPT !["poly"].pc = "size"]
                   /\ UNCHANGED held
              ELSE /\ feed_pc' = [feed_pc EXCEPT !["poly"] = FeedIdle]
                   /\ held' = Release(held, {BookLock("poly", FieldMarket)}, "poly")
    /\ UNCHANGED <<kalshi, det_pc, det_arb, FdFrame>>

\* detect_arbitrage(market) is called
FdDetCall ==
    /\ det_pc = "tick"
    /\ det_pc' = "kalshi"
    /\ det_arb' = NoReads
    /\ UNCHANGED <<bookVars, held, feed_pc, FdFrame>>

FdDetKalshiRead_no_guard ==
    /\ det_pc = "kalshi"
    /\ det_pc' = "poly"
    /\ UNCHANGED <<bookVars, held, det_arb, feed_pc, FdFrame>>

\* let kalshi = market.kalshi.read().unwrap()
FdDetKalshiRead ==
    /\ det_pc = "kalshi"
    /\ CanRead(BookLock("kalshi", FieldMarket))
    /\ held' = Acquire(BookLock("kalshi", FieldMarket), "detector")
    /\ det_pc' = "poly"
    /\ UNCHANGED <<bookVars, det_arb, feed_pc, FdFrame>>

\* let poly = market.poly.read().unwrap()
FdDetPolyRead ==
    /\ det_pc = "poly"
    /\ CanRead(BookLock("poly", FieldMarket))
    /\ held' = Acquire(BookLock("poly", FieldMarket), "detector")
    /\ det_pc' = DetLoads[1]
    /\ UNCHANGED <<bookVars, det_arb, feed_pc, FdFrame>>

\* let k_yes = kalshi.yes_ask; let k_no = kalshi.no_ask;
\* let p_yes = poly.yes_ask; let p_no = poly.no_ask
FdDetLoad ==
    /\ det_pc \in {DetLoads[i] : i \in 1..4}
    /\ LET i == CHOOSE j \in 1..4 : DetLoads[j] = det_pc
           v == CASE det_pc = "k_yes" -> kalshi[FieldMarket].yes_ask
                  [] det_pc = "k_no" -> kalshi[FieldMarket].no_ask
                  [] det_pc = "p_yes" -> poly[FieldMarket].yes_ask
                  [] det_pc = "p_no" -> poly[FieldMarket].no_ask
       IN  /\ det_arb' = [det_arb EXCEPT ![det_pc] = Val(v)]
           /\ det_pc' = IF i < 4 THEN DetLoads[i + 1] ELSE "done"
    /\ UNCHANGED <<bookVars, held, feed_pc, FdFrame>>

\* detect_arbitrage returns: both read guards are dropped
FdDetReturn ==
    /\ det_pc = "done"
    /\ det_pc' = "tick"
    /\ held' = Release(held, {BookLock("kalshi", FieldMarket),
                              BookLock("poly", FieldMarket)}, "detector")
    /\ UNCHANGED <<bookVars, det_arb, feed_pc, FdFrame>>

NextFields ==
    \/ \E msg \in FieldKalshiMsgs : FdFeedWrite("kalshi", KalshiTicker(FieldMarket), msg)
    \/ \E msg \in FieldPolyMsgs :
          \E key \in {PolyYesToken(FieldMarket), PolyNoToken(FieldMarket)} :
             FdFeedWrite("poly", key, msg)
    \/ FdKalshiStore
    \/ FdPolyStore
    \/ FdDetCall
    \/ FdDetKalshiRead
    \/ FdDetPolyRead
    \/ FdDetLoad
    \/ FdDetReturn

InitFields ==
    /\ QuietInit
    /\ tracker = NewTracker
    /\ calls = [m \in Markets |-> 0]
    /\ overflow_checks = TRUE
    /\ fn_in = Idle
    /\ fn_out = Idle

SpecFields == InitFields /\ [][NextFields]_vars

-----------------------------------------------------------------------------
(* C26: the detector never observes a partially applied feed update *)

\* the venue-A books that one update (or the construction) leaves
KalshiWhole ==
    {EmptyBook} \cup {KalshiBook(EmptyBook, msg) : msg \in FieldKalshiMsgs}

\* the price and size that one venue-B update (or the construction) leaves
\* on a side
PolySides ==
    {<<NO_PRICE, 0>>}
        \cup {<<PolyPrice(msg.price), PolySize(msg.size)>> : msg \in FieldPolyMsgs}

\* the detector is between its first load and its return
DetReading == det_pc \in {DetLoads[i] : i \in 1..4} \cup {"done"}

\* the detector has loaded the named price in this or the latest detection
Loaded(f) == det_arb.kind = "reads" /\ det_arb[f] # Missing

\* C26: the four prices of one detection are loaded while the detector holds
\* the read guards of both books together; a feed stores its fields only
\* while it alone holds the book's write guard; no book changes and no feed
\* is between two stores while the detector holds the book's guard; so the
\* venue-A yes and no ask the detector uses come from one venue-A update,
\* and each venue-B price it loads is the price of a completed venue-B update
\* of that side.
C26_NoPartialUpdateObserved ==
    /\ [][ /\ "detector" \in held[BookLock("kalshi", FieldMarket)]
              => kalshi' = kalshi
           /\ "detector" \in held[BookLock("poly", FieldMarket)]
              => poly' = poly ]_vars
    /\ [](/\ DetReading =>
               \A v \in Venues : "detector" \in held[BookLock(v, FieldMarket)]
          /\ \A v \in Venues :
                /\ feed_pc[v].pc # "idle" => held[BookLock(v, FieldMarket)] = {v}
                /\ "detector" \in held[BookLock(v, FieldMarket)]
                      => feed_pc[v].pc = "idle"
          /\ (Loaded("k_yes") /\ Loaded("k_no")) =>
               \E b \in KalshiWhole :
                  det_arb.k_yes = Val(b.yes_ask) /\ det_arb.k_no = Val(b.no_ask)
          /\ (DetReading /\ Loaded("p_yes")) =>
               /\ det_arb.p_yes = Val(poly[FieldMarket].yes_ask)
               /\ <<poly[FieldMarket].yes_ask, poly[FieldMarket].yes_size>> \in PolySides
          /\ (DetReading /\ Loaded("p_no")) =>
               /\ det_arb.p_no = Val(poly[FieldMarket].no_ask)
               /\ <<poly[FieldMarket].no_ask, poly[FieldMarket].no_size>> \in PolySides)

\* the detector has loaded all four prices after venue A's feed stored the
\* four fields of an update and venue B's feed quoted the two sides in
\* different messages; it still holds both guards
C26_Witness ==
    /\ det_pc = "done"
    /\ det_arb = [kind |-> "reads", k_yes |-> Val(49), k_no |-> Val(50),
                  p_yes |-> Val(40), p_no |-> Val(42)]
    /\ kalshi[FieldMarket].yes_size = 700
    /\ \A v \in Venues : held[BookLock(v, FieldMarket)] = {"detector"}

\* The consequence alone, without the statement about the guards.
C26_PricesFromWholeUpdates ==
    /\ (Loaded("k_yes") /\ Loaded("k_no")) =>
         \E b \in KalshiWhole :
            det_arb.k_yes = Val(b.yes_ask) /\ det_arb.k_no = Val(b.no_ask)
    /\ (DetReading /\ Loaded("p_yes")) =>
         <<poly[FieldMarket].yes_ask, poly[FieldMarket].yes_size>> \in PolySides

====
